---- MODULE Spec2Model ----
(***************************************************************************)
(* Model of sagemaker/assets/bootstrap.py: the reconnect_daemon and the    *)
(* switch_daemon, two independently scheduled processes of one notebook,   *)
(* and the connect / disconnect protocol they share.  The remote Glue and  *)
(* SageMaker services, the autossh tunnel and the Livy probe are external: *)
(* every call to them draws its outcome from the outcomes the call can     *)
(* have (a value, or an exception).                                        *)
(***************************************************************************)
EXTENDS Integers, Sequences, FiniteSets, TLC

\* ---------------------------------------------------------------- bounds
\* Ticks each daemon may start when the two daemons interleave freely.
RaceTicks == 1
\* Ticks the two daemons may start in all when ticks do not overlap.
MaxTicks == 3
\* Polls of wait_dev_endpoint_ready before its timeout branch is taken.
MaxPolls == 2

\* ------------------------------------------------------ program constants
RECONNECT_INTERVAL_IN_SEC == 300
SWITCH_INTERVAL_IN_SEC == 30
MAX_FAIL_DURATION_IN_HOUR == 48
HOUR_IN_SEC == 3600

RECONNECT_MAX_FAIL_COUNT ==
    (HOUR_IN_SEC \div RECONNECT_INTERVAL_IN_SEC) * MAX_FAIL_DURATION_IN_HOUR
SWITCH_MAX_FAIL_COUNT ==
    (HOUR_IN_SEC \div SWITCH_INTERVAL_IN_SEC) * MAX_FAIL_DURATION_IN_HOUR

\* dev_endpoint_connection_checker.py
LIVY_SERVER_TIMEOUT_IN_SEC == 1800
LIVY_PING_TIMEOUT_IN_SEC == 5

COMPLETED == "COMPLETED"
FAILED == "FAILED"
\* A LastUpdateStatus that is neither COMPLETED nor FAILED.
IN_PROGRESS == "IN_PROGRESS"
\* The endpoint description carries no LastUpdateStatus field.
NoStatus == "NONE"

\* ------------------------------------------------------------- universe
Rc == "reconnect"
Sw == "switch"
Procs == {Rc, Sw}

Endpoints == {"epA", "epB"}
\* No current_dev_endpoint file / a function that returned None.
None == "None"
\* The notebook carries no aws-glue-dev-endpoint tag.
NoTag == "NoTag"
\* The tag is present with an empty value.
EmptyTag == ""
\* What a read returns of a file that open(..., "w") has emptied and that
\* is not yet written.
EmptyFile == ""
\* What a file holds after two writers that had it open at once have both
\* written from its start, the shorter text last and not the beginning of
\* the longer: the tail of one text after the other text, the name or
\* address of no endpoint.
Mixed == "mixed"
Statuses == {NoStatus, IN_PROGRESS, COMPLETED, FAILED}

\* A public key is the text of a .pub file, a sequence of tokens: the key
\* type, the key material, then the characters of the comment (ssh-keygen -C).
notebook_name == <<"n", "b">>
KeyBlobs == <<"k1", "k2", "k3", "k4", "k5", "k6", "k7", "k8", "k9">>
NoKey == <<>>
LocalKey(n) == <<"ssh-rsa", KeyBlobs[n]>> \o notebook_name
\* A key of another notebook whose name contains this notebook's name.
NamesakeKey == <<"ssh-rsa", "x1", "n", "b", "2">>
\* A key of an unrelated owner (the operator who created the endpoint).
OtherKey == <<"ssh-rsa", "y1", "o", "p">>

\* Python's  s in t  on strings.
IsSubstring(s, t) ==
    \E i \in 0..(Len(t) - Len(s)) : SubSeq(t, i + 1, i + Len(s)) = s

VARIABLES
    \* ---- shared: files of the notebook
    binding,        \* current_dev_endpoint file: an endpoint name, EmptyFile,
                    \* Mixed, or None (no file)
    localKey,       \* glue_key.pub: the local public key, or NoKey (no file,
                    \* or a file emptied and not yet written)
    hostFile,       \* autossh.host: the endpoint whose address it holds,
                    \* EmptyFile, Mixed, or None (no file)
    privKey,        \* glue_key, the private key file, exists
    orphan,         \* daemons that hold current_dev_endpoint open for writing
                    \* and whose file has been removed since they opened it
    tunnel,         \* the autossh job is running
    \* ---- shared: remote state
    desired,        \* the notebook's aws-glue-dev-endpoint tag
    epKeys,         \* DevEndpoint.PublicKeys of each endpoint
    epPublicKey,    \* DevEndpoint.PublicKey (the single legacy field), or NoKey
    \* ---- per daemon
    pc,             \* position of each daemon
    failed_count,   \* failed_count of each daemon's loop
    cur,            \* current_dev_endpoint as read by this tick
    latest,         \* latest_dev_endpoint as read by this tick
    op,             \* the protocol call in progress: none, connect, disconnect
    target,         \* dev_endpoint_name of the protocol call in progress
    toDelete,       \* public_keys_to_delete
    pk,             \* public_key read by add_public_key
    polls,          \* polls made by the wait_dev_endpoint_ready in progress
    \* ---- history (observes the run, read by no action's guard)
    ticks,          \* ticks each daemon has started
    muts,           \* kinds of mutating action the current tick performed
    calls,          \* calls the current tick made, in order: <<kind, endpoint,
                    \* lastProto when the call began>>
    obs,            \* what the current tick was answered, in order: probe
                    \* results, the status and key presence it fetched, the
                    \* tag; NotKept throughout where no record is kept (Spec)
    prevFull,       \* the tick before this reconnect tick was a reconnect tick
                    \* that found the probe refused and the key absent
    outcome,        \* how the tick ended: none (not ended), ok, raised
    lastProto,      \* the last protocol call to begin (connect, disconnect)
                    \* or to return (connect_ok)
    revoke,         \* the latest delete_public_keys_if_has of each daemon:
                    \* none, pending, done, swallowed (it caught an exception)
    tornDown,       \* the endpoint whose binding switch_daemon last removed
    streak,         \* ticks of each daemon that raised since its last tick
                    \* that returned, counted as each tick's sleep begins
    polled          \* the poll of wait_dev_endpoint_ready a daemon has just
                    \* made: <<the status answered or "raised", the number of
                    \* the poll>>; <<>> once the daemon has moved on.  Kept
                    \* by WaitPoll (SpecPoll) only.
    \* ---- dev_endpoint_connection_checker.py
VARIABLES
    gate            \* wait_for_livy_connection: [pc, elapsed, last]

shared == <<binding, localKey, privKey, orphan, hostFile, tunnel, desired,
           epKeys, epPublicKey>>
locals == <<pc, failed_count, cur, latest, op, target, toDelete, pk, polls>>
history == <<ticks, muts, calls, obs, prevFull, outcome, lastProto, revoke,
             tornDown, streak, polled>>
vars == <<shared, locals, history, gate>>

\* ----------------------------------------------------------------- Init
InitLocals ==
    /\ failed_count = [p \in Procs |-> 0]
    /\ cur = [p \in Procs |-> None]
    /\ latest = [p \in Procs |-> None]
    /\ op = [p \in Procs |-> "none"]
    /\ target = [p \in Procs |-> None]
    /\ toDelete = [p \in Procs |-> {}]
    /\ pk = [p \in Procs |-> NoKey]
    /\ polls = [p \in Procs |-> 0]

\* wait_for_livy_connection is not running.
GateOff == [pc |-> "off", elapsed |-> 0, last |-> "none"]

\* The value of obs where the answers are not put on record.
NotKept == <<"not kept">>

InitRecord ==
    /\ ticks = [p \in Procs |-> 0]
    /\ muts = [p \in Procs |-> {}]
    /\ calls = [p \in Procs |-> <<>>]
    /\ prevFull = FALSE
    /\ outcome = [p \in Procs |-> "none"]
    /\ revoke = [p \in Procs |-> "none"]
    /\ tornDown = None
    /\ streak = [p \in Procs |-> 0]
    /\ polled = [p \in Procs |-> <<>>]

InitHistory ==
    /\ InitRecord
    /\ obs = [p \in Procs |-> <<>>]

\* A notebook that has never connected: the daemons start before any connect.
InitFresh ==
    /\ binding = None
    /\ localKey = NoKey
    /\ privKey = FALSE
    /\ orphan = {}
    /\ hostFile = None
    /\ tunnel = FALSE
    /\ desired \in Endpoints
    /\ epKeys = [e \in Endpoints |-> IF e = "epA" THEN {} ELSE {NamesakeKey}]
    /\ epPublicKey = [e \in Endpoints |-> IF e = "epA" THEN OtherKey ELSE NoKey]
    /\ lastProto = "none"

\* A notebook whose bootstrap run (__main__) has connected it to epA.
InitBootstrapped ==
    /\ binding = "epA"
    /\ localKey = LocalKey(1)
    /\ privKey = TRUE
    /\ orphan = {}
    /\ hostFile = "epA"
    /\ tunnel = TRUE
    /\ desired = "epA"
    /\ epKeys = [e \in Endpoints |->
                    IF e = "epA" THEN {LocalKey(1)} ELSE {NamesakeKey}]
    /\ epPublicKey = [e \in Endpoints |-> NoKey]
    /\ lastProto = "connect_ok"

Init ==
    /\ pc = [p \in Procs |-> "loop"]
    /\ gate = GateOff
    /\ InitLocals
    /\ InitHistory
    /\ (InitFresh \/ InitBootstrapped)

\* -------------------------------------------------------------- helpers
Set(f, p, v) == [f EXCEPT ![p] = v]

MaxFailCountSwapped(p) ==
    IF p = Rc THEN SWITCH_MAX_FAIL_COUNT ELSE RECONNECT_MAX_FAIL_COUNT

\* The limit each daemon's while condition compares failed_count with.
MaxFailCount(p) ==
    IF p = Rc THEN RECONNECT_MAX_FAIL_COUNT ELSE SWITCH_MAX_FAIL_COUNT

LoopGuardLe(p) == failed_count[p] <= MaxFailCount(p)

\* The while condition of reconnect_daemon / switch_daemon.
LoopGuard(p) == failed_count[p] < MaxFailCount(p)

is_changed_never(current, latest_) == FALSE

is_changed_always(current, latest_) == TRUE

\* switch_daemon: is_changed = (current_dev_endpoint != latest_dev_endpoint)
is_changed(current, latest_) == current # latest_

is_dev_endpoint_connected_inverted(r) == r = "refused"

\* is_dev_endpoint_connected on a Livy request that did not raise past it:
\* True on an HTTP response, False on a refused connection.
is_dev_endpoint_connected(r) == r = "live"

KeysToDeleteSingleOnly(single, multi) ==
    IF single # NoKey THEN {single} ELSE {}

\* delete_public_keys_if_has: the keys it collects from a description.
KeysToDelete(single, multi) ==
    (IF single # NoKey THEN {single} ELSE {})
        \cup {k \in multi : IsSubstring(notebook_name, k)}

has_public_key_always(single, multi, current) == TRUE

\* has_public_key, on a description and the local public key.
has_public_key(single, multi, current) ==
    \/ (single # NoKey /\ IsSubstring(current, single))
    \/ \E k \in multi : IsSubstring(current, k)

is_dev_endpoint_updating_unless_completed(status) ==
    status # NoStatus /\ status # COMPLETED

\* is_dev_endpoint_updating, on the LastUpdateStatus of a description.
is_dev_endpoint_updating(status) ==
    status # NoStatus /\ status # COMPLETED /\ status # FAILED

WaitResultFailedIsReady(ok, status, n) ==
    IF ~ok THEN "raise"
    ELSE IF status = NoStatus THEN "ready"
    ELSE IF status = COMPLETED THEN "ready"
    ELSE IF status = FAILED THEN "ready"
    ELSE IF n + 1 < MaxPolls THEN "again"
    ELSE "timeout"

WaitResultIgnoresFailed(ok, status, n) ==
    IF ~ok THEN "raise"
    ELSE IF status = NoStatus THEN "ready"
    ELSE IF status = COMPLETED THEN "ready"
    ELSE IF n + 1 < MaxPolls THEN "again"
    ELSE "timeout"

WaitResultTimeoutRaises(ok, status, n) ==
    IF ~ok THEN "raise"
    ELSE IF status = NoStatus THEN "ready"
    ELSE IF status = COMPLETED THEN "ready"
    ELSE IF status = FAILED THEN "raise"
    ELSE IF n + 1 < MaxPolls THEN "again"
    ELSE "raise"

\* One poll of wait_dev_endpoint_ready: n polls were made before it, the
\* GetDevEndpoint call answers (ok) with the given status or raises.
WaitResult(ok, status, n) ==
    IF ~ok THEN "raise"
    ELSE IF status = NoStatus THEN "ready"
    ELSE IF status = COMPLETED THEN "ready"
    ELSE IF status = FAILED THEN "raise"
    ELSE IF n + 1 < MaxPolls THEN "again"
    ELSE "timeout"

\* Python's truth value of a name read from a file or a tag (None and the
\* empty string are false): if not dev_endpoint_name, if current_dev_endpoint,
\* if latest_dev_endpoint.
Truthy(x) == x # None /\ x # EmptyFile

\* get_autossh_host() raises: FileNotFoundError without the file, ValueError
\* on an empty one.
AutosshHostRaises == hostFile = None \/ hostFile = EmptyFile

\* What a file that holds `held` can hold once a writer that opened it
\* before has written `text` from the start of the file: the text alone on
\* an empty file or over the same text; over another text the text alone
\* when it is not the shorter one, and else the text and the other's tail,
\* which is the other text unchanged when the text is its beginning ('dev'
\* written over 'dev2').
Overwritten(held, text) ==
    IF held \in {EmptyFile, text} THEN {text} ELSE {text, held, Mixed}

\* GetDevEndpoint can answer for this name: it is the name of an endpoint
\* (EntityNotFoundException for any other text).
IsEndpoint(e) == e \in Endpoints

\* Key k is registered on endpoint e, in PublicKeys or as PublicKey.
KeyRegistered(e, k) ==
    k # NoKey /\ (k \in epKeys[e] \/ k = epPublicKey[e])

\* Public keys held anywhere: in the key file, registered on an endpoint, or
\* in a variable of a daemon.
KeysInUse ==
    {localKey} \cup UNION {epKeys[e] : e \in Endpoints}
        \cup {epPublicKey[e] : e \in Endpoints}
        \cup {pk[p] : p \in Procs} \cup UNION {toDelete[p] : p \in Procs}

\* ssh-keygen yields key material that occurs nowhere else; which material
\* is immaterial, and FreshKey names the first that is in use nowhere (a
\* name no file, endpoint or variable holds any more may be used again).
FreshKey ==
    LocalKey(CHOOSE n \in 1..Len(KeyBlobs) :
        /\ LocalKey(n) \notin KeysInUse
        /\ \A m \in 1..(n - 1) : LocalKey(m) \in KeysInUse)

TickReturnsNoReset(p) ==
    /\ pc' = Set(pc, p, "done")
    /\ failed_count' = failed_count
    /\ outcome' = Set(outcome, p, "ok")

\* ------------------------------------------------------ control helpers
\* The tick's try block ran to its end: failed_count = 0.
TickReturns(p) ==
    /\ pc' = Set(pc, p, "done")
    /\ failed_count' = Set(failed_count, p, 0)
    /\ outcome' = Set(outcome, p, "ok")

TickRaisesCountsTwice(p) ==
    /\ pc' = Set(pc, p, "done")
    /\ failed_count' = Set(failed_count, p, failed_count[p] + 2)
    /\ outcome' = Set(outcome, p, "raised")

\* An exception reached the daemon's except clause: failed_count += 1.
TickRaises(p) ==
    /\ pc' = Set(pc, p, "done")
    /\ failed_count' = Set(failed_count, p, failed_count[p] + 1)
    /\ outcome' = Set(outcome, p, "raised")

Goto(p, l) ==
    /\ pc' = Set(pc, p, l)
    /\ UNCHANGED <<failed_count, outcome>>

\* connect_dev_endpoint(e) or disconnect_dev_endpoint(e) is entered; both
\* start with delete_public_keys_if_has(e).
BeginCall(p, kind, e) ==
    /\ op' = Set(op, p, kind)
    /\ target' = Set(target, p, e)
    /\ calls' = Set(calls, p, Append(calls[p], <<kind, e, lastProto>>))
    /\ lastProto' = kind
    /\ pc' = Set(pc, p, "rv_fetch")
    /\ UNCHANGED <<failed_count, outcome>>

\* An exception leaves connect_dev_endpoint or disconnect_dev_endpoint, and
\* the tick.
CallRaises(p) ==
    /\ op' = Set(op, p, "none")
    /\ TickRaises(p)

Mut(p, kinds) == muts' = Set(muts, p, muts[p] \cup kinds)

Observe(p, what) ==
    obs' = IF obs[p] = NotKept THEN obs ELSE Set(obs, p, obs[p] \o what)

\* Where delete_public_keys_if_has returns to.
AfterRevokePc(p) == IF op[p] = "disconnect" THEN "d_stop" ELSE "c_keygen"

WaitPcs == {"rv_wait1", "rv_wait2", "c_wait3", "c_wait4"}

\* Where a wait_dev_endpoint_ready that returned continues.
AfterWaitPc(p) ==
    CASE pc[p] = "rv_wait1" ->
            IF toDelete[p] # {} THEN "rv_update" ELSE AfterRevokePc(p)
      [] pc[p] = "rv_wait2" -> AfterRevokePc(p)
      [] pc[p] = "c_wait3" -> "c_add"
      [] OTHER -> "c_addr"

\* Outcomes of a Livy request: an HTTP response, connection refused, or
\* another exception of requests (a timeout).
ProbeResults == {"live", "refused", "error"}

TagValues == Endpoints \cup {NoTag, EmptyTag}

\* ------------------------------------------------------ reconnect_daemon
\* while failed_count < MAX: current_dev_endpoint = get_current_dev_endpoint();
\* reconnect_dev_endpoint returns at once when it is absent.
RcTick ==
    /\ pc[Rc] = "loop"
    /\ LoopGuard(Rc)
    /\ ticks' = Set(ticks, Rc, ticks[Rc] + 1)
    /\ UNCHANGED <<streak, polled>>
    /\ cur' = Set(cur, Rc, binding)
    /\ IF ~Truthy(binding) THEN TickReturns(Rc) ELSE Goto(Rc, "rc_probe")
    /\ UNCHANGED <<shared, latest, op, target, toDelete, pk, polls, muts, calls,
                   obs, prevFull, lastProto, revoke, tornDown>>
    /\ UNCHANGED gate

\* is_dev_endpoint_connected(), the Livy request answering r.
RcProbeOn(r) ==
    /\ pc[Rc] = "rc_probe"
    /\ Observe(Rc, <<r>>)
    /\ IF r = "error" THEN TickRaises(Rc)
       ELSE IF is_dev_endpoint_connected(r) THEN TickReturns(Rc)
       ELSE Goto(Rc, "rc_fetch")
    /\ UNCHANGED <<shared, cur, latest, op, target, toDelete, pk, polls, ticks,
                   muts, calls, prevFull, lastProto, revoke, tornDown,
                   streak, polled>>
    /\ UNCHANGED gate

RcProbe == \E r \in ProbeResults : RcProbeOn(r)

\* get_dev_endpoint (answering, ok, with the given LastUpdateStatus, or
\* raising), is_dev_endpoint_updating, has_public_key (get_public_key raises
\* when there is no key file) and the branch they select.
RcFetchOn(ok, status) ==
    /\ pc[Rc] = "rc_fetch"
    /\ ok => IsEndpoint(cur[Rc])
    /\ Observe(Rc, IF ok
                     THEN <<status, IF KeyRegistered(cur[Rc], localKey)
                                      THEN "present" ELSE "absent">>
                     ELSE <<"raised">>)
    /\ IF ~ok \/ (~is_dev_endpoint_updating(status) /\ localKey = NoKey)
         THEN /\ TickRaises(Rc)
              /\ UNCHANGED <<op, target, calls, lastProto>>
       ELSE IF is_dev_endpoint_updating(status)
         THEN /\ TickReturns(Rc)
              /\ UNCHANGED <<op, target, calls, lastProto>>
       ELSE IF has_public_key(epPublicKey[cur[Rc]], epKeys[cur[Rc]], localKey)
         THEN /\ Goto(Rc, "rc_restart")
              /\ UNCHANGED <<op, target, calls, lastProto>>
       ELSE BeginCall(Rc, "disconnect", cur[Rc])
    /\ UNCHANGED <<shared, cur, latest, toDelete, pk, polls, ticks, muts,
                   prevFull, revoke, tornDown,
                   streak, polled>>
    /\ UNCHANGED gate

RcFetch == \E ok \in BOOLEAN : \E status \in Statuses : RcFetchOn(ok, status)

\* stop_autossh(): it reads autossh.host first and raises when it cannot;
\* initctl stop autossh.
RcRestart ==
    /\ pc[Rc] = "rc_restart"
    /\ IF AutosshHostRaises
         THEN /\ TickRaises(Rc)
              /\ UNCHANGED <<tunnel, muts, calls>>
         ELSE /\ tunnel' = FALSE
              /\ Mut(Rc, {"tunnel"})
              /\ calls' = Set(calls, Rc,
                              Append(calls[Rc], <<"restart", cur[Rc], lastProto>>))
              /\ Goto(Rc, "rc_start")
    /\ UNCHANGED <<binding, localKey, hostFile, desired, epKeys, epPublicKey,
                   cur, latest, op, target, toDelete, pk, polls, ticks, obs,
                   prevFull, lastProto, revoke, tornDown,
                   streak, polled>>
    /\ UNCHANGED <<privKey, orphan>>
    /\ UNCHANGED gate

\* start_autossh(): it reads autossh.host again; initctl reload-configuration,
\* initctl start autossh.
RcStart ==
    /\ pc[Rc] = "rc_start"
    /\ IF AutosshHostRaises
         THEN /\ TickRaises(Rc)
              /\ UNCHANGED tunnel
         ELSE /\ tunnel' = TRUE
              /\ Goto(Rc, "rc_reprobe")
    /\ UNCHANGED <<binding, localKey, hostFile, desired, epKeys, epPublicKey,
                   cur, latest, op, target, toDelete, pk, polls, ticks, muts,
                   calls, obs, prevFull, lastProto, revoke, tornDown,
                   streak, polled>>
    /\ UNCHANGED <<privKey, orphan>>
    /\ UNCHANGED gate

RcReprobeAlwaysRepairs ==
    /\ pc[Rc] = "rc_reprobe"
    /\ \E r \in ProbeResults :
        /\ Observe(Rc, <<r>>)
        /\ IF r = "error"
             THEN /\ TickRaises(Rc)
                  /\ UNCHANGED <<op, target, calls, lastProto>>
           ELSE BeginCall(Rc, "disconnect", cur[Rc])
    /\ UNCHANGED <<shared, cur, latest, toDelete, pk, polls, ticks, muts,
                   prevFull, revoke, tornDown,
                   streak, polled>>
    /\ UNCHANGED gate

\* is_dev_endpoint_connected() after the restart; when Livy is still not
\* reachable the tick goes on to disconnect_dev_endpoint.
RcReprobe ==
    /\ pc[Rc] = "rc_reprobe"
    /\ \E r \in ProbeResults :
        /\ Observe(Rc, <<r>>)
        /\ IF r = "error"
             THEN /\ TickRaises(Rc)
                  /\ UNCHANGED <<op, target, calls, lastProto>>
           ELSE IF is_dev_endpoint_connected(r)
             THEN /\ TickReturns(Rc)
                  /\ UNCHANGED <<op, target, calls, lastProto>>
           ELSE BeginCall(Rc, "disconnect", cur[Rc])
    /\ UNCHANGED <<shared, cur, latest, toDelete, pk, polls, ticks, muts,
                   prevFull, revoke, tornDown,
                   streak, polled>>
    /\ UNCHANGED gate

\* --------------------------------------------------------- switch_daemon
\* while failed_count < MAX: current_dev_endpoint = get_current_dev_endpoint()
SwTick ==
    /\ pc[Sw] = "loop"
    /\ LoopGuard(Sw)
    /\ ticks' = Set(ticks, Sw, ticks[Sw] + 1)
    /\ UNCHANGED <<streak, polled>>
    /\ cur' = Set(cur, Sw, binding)
    /\ prevFull' = FALSE
    /\ Goto(Sw, "sw_tag")
    /\ UNCHANGED <<shared, latest, op, target, toDelete, pk, polls, muts, calls,
                   obs, lastProto, revoke, tornDown>>
    /\ UNCHANGED gate

\* latest_dev_endpoint = get_latest_dev_endpoint() (list_tags answering, ok,
\* or raising; ValueError without the tag); is_changed and the branch it
\* selects.
SwTagOn(ok) ==
    /\ pc[Sw] = "sw_tag"
    /\ Observe(Sw, <<IF ok THEN desired ELSE "raised">>)
    /\ IF ~ok \/ desired = NoTag
         THEN /\ TickRaises(Sw)
              /\ UNCHANGED <<latest, op, target, calls, lastProto, tornDown>>
       ELSE /\ latest' = Set(latest, Sw, desired)
            /\ IF ~is_changed(cur[Sw], desired)
                 THEN /\ TickReturns(Sw)
                      /\ UNCHANGED <<op, target, calls, lastProto, tornDown>>
               ELSE IF Truthy(cur[Sw])
                 THEN /\ Goto(Sw, "sw_remove")
                      /\ UNCHANGED <<op, target, calls, lastProto, tornDown>>
               ELSE IF Truthy(desired)
                 THEN /\ BeginCall(Sw, "connect", desired)
                      /\ tornDown' = IF tornDown = desired THEN None
                                     ELSE tornDown
               ELSE /\ TickReturns(Sw)
                    /\ UNCHANGED <<op, target, calls, lastProto, tornDown>>
    /\ UNCHANGED <<shared, cur, toDelete, pk, polls, ticks, muts, prevFull,
                   revoke,
                   streak, polled>>
    /\ UNCHANGED gate

SwTag == \E ok \in BOOLEAN : SwTagOn(ok)

SwRemoveNoClear ==
    /\ pc[Sw] = "sw_remove"
    /\ UNCHANGED <<binding, muts>>
    /\ tornDown' = cur[Sw]
    /\ BeginCall(Sw, "disconnect", cur[Sw])
    /\ UNCHANGED <<localKey, hostFile, tunnel, desired, epKeys, epPublicKey,
                   cur, latest, toDelete, pk, polls, ticks, obs, prevFull,
                   revoke, streak, polled>>
    /\ UNCHANGED <<privKey, orphan>>
    /\ UNCHANGED gate

\* remove_dev_endpoint(current_dev_endpoint), then disconnect_dev_endpoint
\* is entered.  A daemon that holds the file open for writing keeps writing
\* to the removed file.
SwRemove ==
    /\ pc[Sw] = "sw_remove"
    /\ binding' = None
    /\ orphan' = IF binding # None
                   THEN orphan \cup {q \in Procs : pc[q] = "c_save_write"}
                   ELSE orphan
    /\ Mut(Sw, IF binding # None THEN {"binding"} ELSE {})
    /\ tornDown' = cur[Sw]
    /\ BeginCall(Sw, "disconnect", cur[Sw])
    /\ UNCHANGED <<localKey, hostFile, tunnel, desired, epKeys, epPublicKey,
                   cur, latest, toDelete, pk, polls, ticks, obs, prevFull,
                   revoke,
                   streak, polled>>
    /\ UNCHANGED privKey
    /\ UNCHANGED gate

\* ------------------------------------- delete_public_keys_if_has (shared)
\* dev_endpoint = get_dev_endpoint(...); public_keys_to_delete is collected.
\* Any exception is caught by delete_public_keys_if_has itself.
RvFetch(p) ==
    /\ pc[p] = "rv_fetch"
    /\ \E ok \in {b \in BOOLEAN : b => IsEndpoint(target[p])} :
        IF ok
          THEN /\ toDelete' = Set(toDelete, p,
                      KeysToDelete(epPublicKey[target[p]], epKeys[target[p]]))
               /\ Goto(p, "rv_wait1")
               /\ revoke' = Set(revoke, p, "pending")
          ELSE /\ toDelete' = Set(toDelete, p, {})
               /\ Goto(p, AfterRevokePc(p))
               /\ revoke' = Set(revoke, p, "swallowed")
    /\ polls' = Set(polls, p, 0)
    /\ UNCHANGED <<shared, cur, latest, op, target, pk, ticks, muts, calls, obs,
                   prevFull, lastProto, tornDown,
                   streak, polled>>
    /\ UNCHANGED gate

\* One poll of a wait_dev_endpoint_ready, GetDevEndpoint answering (ok) with
\* the given LastUpdateStatus or raising: in delete_public_keys (its raise
\* is swallowed by delete_public_keys_if_has) or in add_public_key (its
\* raise leaves connect_dev_endpoint).
WaitStepOn(p, ok, status) ==
    /\ pc[p] \in WaitPcs
    /\ ok => IsEndpoint(target[p])
    /\ LET r == WaitResult(ok, status, polls[p])
           inRevoke == pc[p] \in {"rv_wait1", "rv_wait2"}
           revokeEnds == inRevoke /\ AfterWaitPc(p) = AfterRevokePc(p)
       IN  CASE r = "again" ->
                    /\ polls' = Set(polls, p, polls[p] + 1)
                    /\ Goto(p, pc[p])
                    /\ UNCHANGED <<op, revoke>>
             [] r \in {"ready", "timeout"} ->
                    /\ polls' = Set(polls, p, 0)
                    /\ Goto(p, AfterWaitPc(p))
                    /\ revoke' = IF revokeEnds THEN Set(revoke, p, "done")
                                 ELSE revoke
                    /\ UNCHANGED op
             [] OTHER ->
                    /\ polls' = Set(polls, p, 0)
                    /\ IF inRevoke
                         THEN /\ Goto(p, AfterRevokePc(p))
                              /\ revoke' = Set(revoke, p, "swallowed")
                              /\ UNCHANGED op
                         ELSE /\ CallRaises(p)
                              /\ UNCHANGED revoke
    /\ UNCHANGED <<shared, cur, latest, target, toDelete, pk, ticks, muts,
                   calls, obs, prevFull, lastProto, tornDown,
                   streak>>
    /\ UNCHANGED gate

WaitStep(p) ==
    /\ \E ok \in BOOLEAN : \E status \in Statuses : WaitStepOn(p, ok, status)
    /\ UNCHANGED polled

\* The same poll, with its answer put on record.
WaitPoll(p) ==
    \E ok \in BOOLEAN : \E status \in Statuses :
        /\ WaitStepOn(p, ok, status)
        /\ polled' = Set(polled, p,
                         <<IF ok THEN status ELSE "raised", polls[p] + 1>>)

RvUpdateRaises(p) ==
    /\ pc[p] = "rv_update"
    /\ Mut(p, {"update"})
    /\ \E ok \in BOOLEAN :
        IF ok
          THEN /\ epKeys' = Set(epKeys, target[p], epKeys[target[p]] \ toDelete[p])
               /\ epPublicKey' = Set(epPublicKey, target[p],
                      IF epPublicKey[target[p]] \in toDelete[p] THEN NoKey
                      ELSE epPublicKey[target[p]])
               /\ Goto(p, "rv_wait2")
               /\ UNCHANGED <<revoke, op>>
          ELSE /\ UNCHANGED <<epKeys, epPublicKey>>
               /\ CallRaises(p)
               /\ revoke' = Set(revoke, p, "swallowed")
    /\ polls' = Set(polls, p, 0)
    /\ UNCHANGED <<binding, localKey, hostFile, tunnel, desired, cur, latest,
                   target, toDelete, pk, ticks, calls, obs, prevFull, lastProto,
                   tornDown,
                   streak>>
    /\ polled' = Set(polled, p, <<>>)
    /\ UNCHANGED <<privKey, orphan>>
    /\ UNCHANGED gate

\* update_dev_endpoint(DeletePublicKeys=public_keys_to_delete)
RvUpdate(p) ==
    /\ pc[p] = "rv_update"
    /\ Mut(p, {"update"})
    /\ \E ok \in BOOLEAN :
        IF ok
          THEN /\ epKeys' = Set(epKeys, target[p], epKeys[target[p]] \ toDelete[p])
               /\ epPublicKey' = Set(epPublicKey, target[p],
                      IF epPublicKey[target[p]] \in toDelete[p] THEN NoKey
                      ELSE epPublicKey[target[p]])
               /\ Goto(p, "rv_wait2")
               /\ UNCHANGED revoke
          ELSE /\ UNCHANGED <<epKeys, epPublicKey>>
               /\ Goto(p, AfterRevokePc(p))
               /\ revoke' = Set(revoke, p, "swallowed")
    /\ polls' = Set(polls, p, 0)
    /\ UNCHANGED <<binding, localKey, hostFile, tunnel, desired, cur, latest, op,
                   target, toDelete, pk, ticks, calls, obs, prevFull, lastProto,
                   tornDown,
                   streak>>
    /\ polled' = Set(polled, p, <<>>)
    /\ UNCHANGED <<privKey, orphan>>
    /\ UNCHANGED gate

\* ------------------------------------------------ disconnect_dev_endpoint
\* stop_autossh(): it reads autossh.host first and raises when it cannot;
\* initctl stop autossh.
DStop(p) ==
    /\ pc[p] = "d_stop"
    /\ IF AutosshHostRaises
         THEN /\ CallRaises(p)
              /\ UNCHANGED <<tunnel, muts>>
         ELSE /\ tunnel' = FALSE
              /\ Mut(p, {"tunnel"})
              /\ Goto(p, "d_tag")
              /\ UNCHANGED op
    /\ UNCHANGED <<binding, localKey, hostFile, desired, epKeys, epPublicKey,
                   cur, latest, target, toDelete, pk, polls, ticks, calls, obs,
                   prevFull, lastProto, revoke, tornDown,
                   streak>>
    /\ polled' = Set(polled, p, <<>>)
    /\ UNCHANGED <<privKey, orphan>>
    /\ UNCHANGED gate

\* update_connection_tag("disconnected"), whose failure is only logged; the
\* call returns and its caller goes on: reconnect_dev_endpoint to
\* connect_dev_endpoint of the same endpoint, switch_daemon to
\* connect_dev_endpoint(latest) if latest_dev_endpoint is not empty.
DTag(p) ==
    /\ pc[p] = "d_tag"
    /\ Mut(p, {"tag"})
    /\ IF p = Sw /\ ~Truthy(latest[Sw])
         THEN /\ op' = Set(op, p, "none")
              /\ TickReturns(p)
              /\ UNCHANGED <<target, calls, lastProto, tornDown>>
         ELSE LET nxt == IF p = Rc THEN cur[Rc] ELSE latest[Sw]
              IN  /\ BeginCall(p, "connect", nxt)
                  /\ tornDown' = IF p = Sw /\ tornDown = nxt
                                 THEN None ELSE tornDown
    /\ UNCHANGED <<shared, cur, latest, toDelete, pk, polls, ticks, obs,
                   prevFull, revoke, streak, polled>>
    /\ UNCHANGED gate

\* --------------------------------------------------- connect_dev_endpoint
\* generate_ssh_keypair(): os.path.exists(SSH_KEY_PRIVATE_PATH); when the
\* private key is there, get_public_key() for the log, which raises without
\* a public key file. SSH_KEY_DIR is made by the first key generation, before
\* any binding is saved, so the mkdir branch is the case without a private key.
CKeygen(p) ==
    /\ pc[p] = "c_keygen"
    /\ IF privKey /\ localKey = NoKey
         THEN CallRaises(p)
         ELSE /\ Goto(p, IF privKey THEN "c_remove" ELSE "c_sshkeygen")
              /\ UNCHANGED op
    /\ UNCHANGED <<shared, cur, latest, target, toDelete, pk, polls, ticks,
                   muts, calls, obs, prevFull, lastProto, revoke, tornDown,
                   streak>>
    /\ polled' = Set(polled, p, <<>>)
    /\ UNCHANGED gate

\* generate_ssh_keypair(): os.remove(SSH_KEY_PRIVATE_PATH), which raises
\* FileNotFoundError when the file has gone since it was seen.
CRemove(p) ==
    /\ pc[p] = "c_remove"
    /\ IF privKey
         THEN /\ privKey' = FALSE
              /\ Goto(p, "c_sshkeygen")
              /\ UNCHANGED op
         ELSE /\ UNCHANGED privKey
              /\ CallRaises(p)
    /\ UNCHANGED <<binding, localKey, hostFile, tunnel, desired, epKeys,
                   epPublicKey, cur, latest, target, toDelete, pk, polls,
                   ticks, muts, calls, obs, prevFull, lastProto, revoke,
                   tornDown, streak, polled>>
    /\ UNCHANGED orphan
    /\ UNCHANGED gate

\* generate_ssh_keypair(): check_output(ssh-keygen -f SSH_KEY_PRIVATE_PATH).
\* ssh-keygen first looks for a file in its way: with a private key file
\* there it asks whether to overwrite, gets no answer and fails
\* (CalledProcessError).
CSshKeygen(p) ==
    /\ pc[p] = "c_sshkeygen"
    /\ IF privKey
         THEN CallRaises(p)
         ELSE /\ Goto(p, "c_privwrite")
              /\ UNCHANGED op
    /\ UNCHANGED <<shared, cur, latest, target, toDelete, pk, polls, ticks,
                   muts, calls, obs, prevFull, lastProto, revoke, tornDown,
                   streak, polled>>
    /\ UNCHANGED gate

\* ssh-keygen, still running: it writes the private key file, there
\* already or not (another ssh-keygen that found none may have written it
\* since).
CPrivWrite(p) ==
    /\ pc[p] = "c_privwrite"
    /\ privKey' = TRUE
    /\ Mut(p, {"keygen"})
    /\ Goto(p, "c_pubopen")
    /\ UNCHANGED <<binding, localKey, orphan, hostFile, tunnel, desired,
                   epKeys, epPublicKey, cur, latest, op, target, toDelete, pk,
                   polls, ticks, calls, obs, prevFull, lastProto, revoke,
                   tornDown, streak, polled>>
    /\ UNCHANGED gate

\* ssh-keygen, still running: it opens glue_key.pub for writing, which
\* empties the file.
CPubOpen(p) ==
    /\ pc[p] = "c_pubopen"
    /\ localKey' = NoKey
    /\ Goto(p, "c_pubwrite")
    /\ UNCHANGED <<binding, privKey, orphan, hostFile, tunnel, desired,
                   epKeys, epPublicKey, cur, latest, op, target, toDelete, pk,
                   polls, ticks, muts, calls, obs, prevFull, lastProto, revoke,
                   tornDown, streak, polled>>
    /\ UNCHANGED gate

\* ssh-keygen writes the new public key to glue_key.pub and exits.
CPubWrite(p) ==
    /\ pc[p] = "c_pubwrite"
    /\ localKey' = FreshKey
    /\ Goto(p, "c_chmod")
    /\ UNCHANGED <<binding, privKey, orphan, hostFile, tunnel, desired,
                   epKeys, epPublicKey, cur, latest, op, target, toDelete, pk,
                   polls, ticks, muts, calls, obs, prevFull, lastProto, revoke,
                   tornDown, streak, polled>>
    /\ UNCHANGED gate

\* generate_ssh_keypair(): os.chmod(SSH_KEY_PRIVATE_PATH), which raises
\* FileNotFoundError without the file; get_public_key() for the log.
CChmod(p) ==
    /\ pc[p] = "c_chmod"
    /\ IF privKey /\ localKey # NoKey
         THEN Goto(p, "c_readpk") /\ UNCHANGED op
         ELSE CallRaises(p)
    /\ UNCHANGED <<shared, cur, latest, target, toDelete, pk, polls, ticks,
                   muts, calls, obs, prevFull, lastProto, revoke, tornDown,
                   streak, polled>>
    /\ UNCHANGED gate

\* add_public_key: public_key = get_public_key(), which raises without a
\* public key file (FileNotFoundError) and on an empty one (ValueError).
CReadPk(p) ==
    /\ pc[p] = "c_readpk"
    /\ IF localKey = NoKey
         THEN /\ CallRaises(p)
              /\ UNCHANGED <<pk, polls>>
         ELSE /\ pk' = Set(pk, p, localKey)
              /\ polls' = Set(polls, p, 0)
              /\ Goto(p, "c_wait3")
              /\ UNCHANGED op
    /\ UNCHANGED <<shared, cur, latest, target, toDelete, ticks, muts,
                   calls, obs, prevFull, lastProto, revoke, tornDown,
                   streak, polled>>
    /\ UNCHANGED gate

CAddSwallowing(p) ==
    /\ pc[p] = "c_add"
    /\ Mut(p, {"update"})
    /\ \E ok \in BOOLEAN :
        epKeys' = IF ok THEN Set(epKeys, target[p], epKeys[target[p]] \cup {pk[p]})
                  ELSE epKeys
    /\ Goto(p, "c_wait4")
    /\ polls' = Set(polls, p, 0)
    /\ UNCHANGED <<binding, localKey, hostFile, tunnel, desired, epPublicKey,
                   cur, latest, op, target, toDelete, pk, ticks, calls, obs,
                   prevFull, lastProto, revoke, tornDown,
                   streak>>
    /\ polled' = Set(polled, p, <<>>)
    /\ UNCHANGED <<privKey, orphan>>
    /\ UNCHANGED gate

\* add_public_key: update_dev_endpoint(AddPublicKeys=[public_key])
CAdd(p) ==
    /\ pc[p] = "c_add"
    /\ Mut(p, {"update"})
    /\ \E ok \in BOOLEAN :
        IF ok
          THEN /\ epKeys' = Set(epKeys, target[p], epKeys[target[p]] \cup {pk[p]})
               /\ Goto(p, "c_wait4")
               /\ UNCHANGED op
          ELSE /\ UNCHANGED epKeys
               /\ CallRaises(p)
    /\ polls' = Set(polls, p, 0)
    /\ UNCHANGED <<binding, localKey, hostFile, tunnel, desired, epPublicKey,
                   cur, latest, target, toDelete, pk, ticks, calls, obs,
                   prevFull, lastProto, revoke, tornDown,
                   streak>>
    /\ polled' = Set(polled, p, <<>>)
    /\ UNCHANGED <<privKey, orphan>>
    /\ UNCHANGED gate

\* add_public_key: get_dev_endpoint, then open(AUTO_SSH_HOST_PATH, 'w+'),
\* which empties autossh.host.
CAddr(p) ==
    /\ pc[p] = "c_addr"
    /\ \E ok \in BOOLEAN :
        IF ok
          THEN /\ hostFile' = EmptyFile
               /\ Mut(p, {"hostfile"})
               /\ Goto(p, "c_addr_write")
               /\ UNCHANGED op
          ELSE /\ UNCHANGED <<hostFile, muts>>
               /\ CallRaises(p)
    /\ UNCHANGED <<binding, localKey, tunnel, desired, epKeys, epPublicKey, cur,
                   latest, target, toDelete, pk, polls, ticks, calls, obs,
                   prevFull, lastProto, revoke, tornDown,
                   streak>>
    /\ polled' = Set(polled, p, <<>>)
    /\ UNCHANGED <<privKey, orphan>>
    /\ UNCHANGED gate

\* add_public_key: file.write(dev_endpoint_address) and the close that ends
\* the with block: the address is written from the start of the file that
\* was opened, over what another writer has put there since.
CAddrWrite(p) ==
    /\ pc[p] = "c_addr_write"
    /\ hostFile' \in Overwritten(hostFile, target[p])
    /\ Goto(p, "c_start")
    /\ UNCHANGED <<binding, localKey, privKey, orphan, tunnel, desired, epKeys,
                   epPublicKey, cur, latest, op, target, toDelete, pk, polls,
                   ticks, muts, calls, obs, prevFull, lastProto, revoke,
                   tornDown, streak, polled>>
    /\ UNCHANGED gate

CStartSavesBinding(p) ==
    /\ pc[p] = "c_start"
    /\ IF AutosshHostRaises
         THEN /\ CallRaises(p)
              /\ UNCHANGED <<tunnel, binding, muts>>
         ELSE /\ tunnel' = TRUE
              /\ binding' = target[p]
              /\ Mut(p, {"tunnel"})
              /\ Goto(p, "c_ping")
              /\ UNCHANGED op
    /\ UNCHANGED <<localKey, hostFile, desired, epKeys, epPublicKey,
                   cur, latest, target, toDelete, pk, polls, ticks, calls,
                   obs, prevFull, lastProto, revoke, tornDown,
                   streak, polled>>
    /\ UNCHANGED <<privKey, orphan>>
    /\ UNCHANGED gate

\* start_autossh(): it reads autossh.host first and raises when it cannot;
\* initctl reload-configuration, initctl start autossh;
\* time.sleep(LIVY_PING_TIMEOUT_IN_SEC).
CStart(p) ==
    /\ pc[p] = "c_start"
    /\ IF AutosshHostRaises
         THEN /\ CallRaises(p)
              /\ UNCHANGED <<tunnel, muts>>
         ELSE /\ tunnel' = TRUE
              /\ Mut(p, {"tunnel"})
              /\ Goto(p, "c_ping")
              /\ UNCHANGED op
    /\ UNCHANGED <<binding, localKey, hostFile, desired, epKeys, epPublicKey,
                   cur, latest, target, toDelete, pk, polls, ticks, calls,
                   obs, prevFull, lastProto, revoke, tornDown,
                   streak, polled>>
    /\ UNCHANGED <<privKey, orphan>>
    /\ UNCHANGED gate

\* ping_livy(): requests.get is not wrapped, so a refused connection or a
\* timeout raises out of connect_dev_endpoint.
CPing(p) ==
    /\ pc[p] = "c_ping"
    /\ \E r \in ProbeResults :
        /\ Observe(p, <<r>>)
        /\ IF r = "live"
             THEN Goto(p, "c_save") /\ UNCHANGED op
             ELSE CallRaises(p)
    /\ UNCHANGED <<shared, cur, latest, target, toDelete, pk, polls, ticks,
                   muts, calls, prevFull, lastProto, revoke, tornDown,
                   streak, polled>>
    /\ UNCHANGED gate

CSaveTagOnly(p) ==
    /\ pc[p] = "c_save"
    /\ Goto(p, "c_tag")
    /\ UNCHANGED <<shared, cur, latest, op, target, toDelete, pk, polls, ticks,
                   muts, calls, obs, prevFull, lastProto, revoke, tornDown,
                   streak, polled>>
    /\ UNCHANGED gate

\* save_current_dev_endpoint: open(CURRENT_DEV_ENDPOINT_PATH, "w"), which
\* creates the file or empties it; when it fails (IOError) the file is as it
\* was, the error is logged and raised again.
CSave(p) ==
    /\ pc[p] = "c_save"
    /\ \E ok \in BOOLEAN :
        IF ok
          THEN /\ binding' = EmptyFile
               /\ orphan' = orphan \ {p}
               /\ Mut(p, {"binding"})
               /\ Goto(p, "c_save_write")
               /\ UNCHANGED op
          ELSE /\ UNCHANGED <<binding, orphan, muts>>
               /\ CallRaises(p)
    /\ UNCHANGED <<localKey, hostFile, tunnel, desired, epKeys, epPublicKey,
                   cur, latest, target, toDelete, pk, polls, ticks, calls,
                   obs, prevFull, lastProto, revoke, tornDown,
                   streak, polled>>
    /\ UNCHANGED privKey
    /\ UNCHANGED gate

\* save_current_dev_endpoint: file.write(dev_endpoint_name) and the close
\* that ends the with block.  The name is written from the start of the file
\* that was opened, over what another writer has put there since; if
\* remove_dev_endpoint has removed that file, no file holds it.  When the
\* write fails (IOError) nothing of the name is in the file, which stays as
\* the open left it; the error is logged and raised again.
CSaveWrite(p) ==
    /\ pc[p] = "c_save_write"
    /\ \E ok \in BOOLEAN :
        IF ok
          THEN /\ binding' \in (IF p \in orphan THEN {binding}
                                ELSE Overwritten(binding, target[p]))
               /\ Goto(p, "c_tag")
               /\ UNCHANGED op
          ELSE /\ UNCHANGED binding
               /\ CallRaises(p)
    /\ orphan' = orphan \ {p}
    /\ UNCHANGED <<localKey, hostFile, tunnel, desired, epKeys, epPublicKey,
                   cur, latest, target, toDelete, pk, polls, ticks, muts,
                   calls, obs, prevFull, lastProto, revoke, tornDown,
                   streak, polled>>
    /\ UNCHANGED privKey
    /\ UNCHANGED gate

\* update_connection_tag(), whose failure is only logged;
\* connect_dev_endpoint returns, and with it the tick.
CTag(p) ==
    /\ pc[p] = "c_tag"
    /\ Mut(p, {"tag"})
    /\ lastProto' = "connect_ok"
    /\ op' = Set(op, p, "none")
    /\ TickReturns(p)
    /\ UNCHANGED <<shared, cur, latest, target, toDelete, pk, polls, ticks,
                   calls, obs, prevFull, revoke, tornDown,
                   streak, polled>>
    /\ UNCHANGED gate

\* ----------------------------------------------------------- loop control
\* time.sleep(INTERVAL) at the end of an iteration; the loop is back at its
\* while condition.  The tick's locals are dead from here on (each is
\* assigned again before it is read) and the tick's history is closed.
Sleep(p) ==
    /\ pc[p] = "done"
    /\ pc' = Set(pc, p, "loop")
    /\ cur' = Set(cur, p, None)
    /\ latest' = Set(latest, p, None)
    /\ target' = Set(target, p, None)
    /\ toDelete' = Set(toDelete, p, {})
    /\ pk' = Set(pk, p, NoKey)
    /\ muts' = Set(muts, p, {})
    /\ calls' = Set(calls, p, <<>>)
    /\ obs' = Set(obs, p, IF obs[p] = NotKept THEN NotKept ELSE <<>>)
    /\ outcome' = Set(outcome, p, "none")
    /\ revoke' = Set(revoke, p, "none")
    /\ prevFull' = IF p = Rc
                     THEN /\ Len(obs[Rc]) >= 3
                          /\ obs[Rc][1] = "refused"
                          /\ ~is_dev_endpoint_updating(obs[Rc][2])
                          /\ obs[Rc][3] = "absent"
                     ELSE prevFull
    /\ streak' = Set(streak, p, IF outcome[p] = "raised" THEN streak[p] + 1
                              ELSE 0)
    /\ UNCHANGED <<shared, failed_count, op, polls, ticks, lastProto, tornDown>>
    /\ polled' = Set(polled, p, <<>>)
    /\ UNCHANGED gate

\* The while condition is false: the daemon logs "stopped" and ends.
LoopExit(p) ==
    /\ pc[p] = "loop"
    /\ ~LoopGuard(p)
    /\ pc' = Set(pc, p, "stopped")
    /\ UNCHANGED <<shared, failed_count, cur, latest, op, target, toDelete, pk,
                   polls, history>>
    /\ UNCHANGED gate

\* ----------------------------------------------------------- environment
\* The tag is read by SwTag alone, so a change the operator makes at any
\* moment is observed exactly as a change made just before that read: the
\* operator's step is placed there.  An endpoint's LastUpdateStatus is
\* owned by the remote service and is an input of each GetDevEndpoint.
TagIsRead == pc[Sw] = "sw_tag"

\* The operator changes, removes or empties the notebook's endpoint tag.
EnvRetag ==
    /\ TagIsRead
    /\ \E d \in TagValues \ {desired} : desired' = d
    /\ UNCHANGED <<binding, localKey, hostFile, tunnel, epKeys, epPublicKey,
                   locals, history>>
    /\ UNCHANGED <<privKey, orphan>>
    /\ UNCHANGED gate

\* ------------------------------------------- wait_for_livy_connection
\* Seconds a Livy request of the gate may take: it is answered or refused
\* at once, or runs into its timeout.
ProbeTimes == {0, LIVY_PING_TIMEOUT_IN_SEC}

LivyWaitGuardLe(elapsed) == elapsed <= LIVY_SERVER_TIMEOUT_IN_SEC

\* while (time.time() - start) < LIVY_SERVER_TIMEOUT_IN_SEC
LivyWaitGuard(elapsed) == elapsed < LIVY_SERVER_TIMEOUT_IN_SEC

\* One iteration: requests.get answering r after d seconds.  A response
\* returns; ConnectionError sleeps LIVY_PING_TIMEOUT_IN_SEC and loops; any
\* other exception leaves the function.
GateProbe(r, d) ==
    /\ gate.pc = "run"
    /\ LivyWaitGuard(gate.elapsed)
    /\ gate' = CASE r = "live" ->
                      [pc |-> "ok", elapsed |-> gate.elapsed + d, last |-> r]
                 [] r = "refused" ->
                      [pc |-> "run",
                       elapsed |-> gate.elapsed + d + LIVY_PING_TIMEOUT_IN_SEC,
                       last |-> r]
                 [] OTHER ->
                      [pc |-> "error", elapsed |-> gate.elapsed + d, last |-> r]
    /\ UNCHANGED <<shared, locals, history>>

\* The while condition is false: raise ValueError(error_msg).
GateTimeout ==
    /\ gate.pc = "run"
    /\ ~LivyWaitGuard(gate.elapsed)
    /\ gate' = [gate EXCEPT !.pc = "fatal"]
    /\ UNCHANGED <<shared, locals, history>>

\* -------------------------------------------------------- specifications
ProtocolStep(p) ==
    \/ RvFetch(p)
    \/ RvUpdate(p)
    \/ DStop(p)
    \/ DTag(p)
    \/ CKeygen(p)
    \/ CRemove(p)
    \/ CSshKeygen(p)
    \/ CPrivWrite(p)
    \/ CPubOpen(p)
    \/ CPubWrite(p)
    \/ CChmod(p)
    \/ CReadPk(p)
    \/ CAdd(p)
    \/ CAddr(p)
    \/ CAddrWrite(p)
    \/ CStart(p)
    \/ CPing(p)
    \/ CSave(p)
    \/ CSaveWrite(p)
    \/ CTag(p)

\* A step of a tick that has started, or the sleep that follows it.
TickStep ==
    \/ RcProbe
    \/ RcFetch
    \/ RcRestart
    \/ RcStart
    \/ RcReprobe
    \/ SwTag
    \/ SwRemove
    \/ \E p \in Procs : ProtocolStep(p)
    \/ \E p \in Procs : Sleep(p)

MidTick ==
    \/ TickStep
    \/ \E p \in Procs : WaitStep(p)

\* Both daemons run as independent processes; every step of one may fall
\* between two steps of the other.
Next ==
    \/ (ticks[Rc] < RaceTicks /\ RcTick)
    \/ (ticks[Sw] < RaceTicks /\ SwTick)
    \/ MidTick
    \/ EnvRetag

\* The answers a tick was given are not put on record here: the claims
\* settled under Spec read none of them.
InitRace ==
    /\ pc = [p \in Procs |-> "loop"]
    /\ gate = GateOff
    /\ InitLocals
    /\ InitRecord
    /\ obs = [p \in Procs |-> NotKept]
    /\ (InitFresh \/ InitBootstrapped)

Spec == InitRace /\ [][Next]_vars

\* The two daemons with ticks that do not overlap: a tick starts only while
\* the other daemon sleeps between two ticks.
NextSeq ==
    \/ (ticks[Rc] + ticks[Sw] < MaxTicks /\ pc[Sw] = "loop" /\ RcTick)
    \/ (ticks[Rc] + ticks[Sw] < MaxTicks /\ pc[Rc] = "loop" /\ SwTick)
    \/ MidTick
    \/ EnvRetag

SpecSeq == Init /\ [][NextSeq]_vars

\* SpecSeq with the answer of every poll of wait_dev_endpoint_ready on
\* record.
NextPoll ==
    \/ (ticks[Rc] + ticks[Sw] < MaxTicks /\ pc[Sw] = "loop" /\ RcTick)
    \/ (ticks[Rc] + ticks[Sw] < MaxTicks /\ pc[Rc] = "loop" /\ SwTick)
    \/ TickStep
    \/ (\E p \in Procs : WaitPoll(p))
    \/ EnvRetag

SpecPoll == Init /\ [][NextPoll]_vars

\* One daemon during a sustained outage: the Livy request is refused or
\* times out, GetDevEndpoint and ListTags raise, so every tick raises.  The
\* other daemon has not been started.
InitLoop ==
    /\ \E a \in Procs : pc = [p \in Procs |-> IF p = a THEN "loop" ELSE "off"]
    /\ gate = GateOff
    /\ InitLocals
    /\ InitHistory
    /\ InitBootstrapped

NextLoop ==
    \/ RcTick
    \/ RcProbeOn("refused")
    \/ RcProbeOn("error")
    \/ (\E status \in Statuses : RcFetchOn(FALSE, status))
    \/ SwTick
    \/ SwTagOn(FALSE)
    \/ \E p \in Procs : Sleep(p)
    \/ \E p \in Procs : LoopExit(p)

SpecLoop == InitLoop /\ [][NextLoop]_vars

\* The two daemons late in an outage, ticks not overlapping: a daemon whose
\* ticks have raised has seen all but one of the failing ticks it tolerates,
\* so a tick that raises is its last and a tick that returns starts the
\* count again.  On a notebook that never connected no reconnect tick has
\* raised (without a binding each returns at once): only list_tags has
\* failed, in switch_daemon.
InitLate ==
    /\ pc = [p \in Procs |-> "loop"]
    /\ gate = GateOff
    /\ \/ /\ InitFresh
          /\ failed_count = [p \in Procs |->
                                IF p = Rc THEN 0 ELSE MaxFailCount(p) - 1]
       \/ /\ InitBootstrapped
          /\ failed_count = [p \in Procs |-> MaxFailCount(p) - 1]
    /\ cur = [p \in Procs |-> None]
    /\ latest = [p \in Procs |-> None]
    /\ op = [p \in Procs |-> "none"]
    /\ target = [p \in Procs |-> None]
    /\ toDelete = [p \in Procs |-> {}]
    /\ pk = [p \in Procs |-> NoKey]
    /\ polls = [p \in Procs |-> 0]
    /\ ticks = [p \in Procs |-> 0]
    /\ muts = [p \in Procs |-> {}]
    /\ calls = [p \in Procs |-> <<>>]
    /\ obs = [p \in Procs |-> <<>>]
    /\ prevFull = FALSE
    /\ outcome = [p \in Procs |-> "none"]
    /\ revoke = [p \in Procs |-> "none"]
    /\ tornDown = None
    /\ streak = failed_count
    /\ polled = [p \in Procs |-> <<>>]

NextLate ==
    \/ (ticks[Rc] + ticks[Sw] < MaxTicks /\ pc[Sw] \in {"loop", "stopped"}
            /\ RcTick)
    \/ (ticks[Rc] + ticks[Sw] < MaxTicks /\ pc[Rc] \in {"loop", "stopped"}
            /\ SwTick)
    \/ MidTick
    \/ (\E p \in Procs : LoopExit(p))
    \/ EnvRetag

SpecLate == InitLate /\ [][NextLate]_vars

\* switch_daemon alone, the tag an endpoint name that nobody changes: on a
\* notebook that never connected, or on one connected to epA whose tag was
\* changed to epB before the daemon's first tick.  The daemon's process runs
\* on: a step it can take is taken.
InitRetagged ==
    /\ binding = "epA"
    /\ localKey = LocalKey(1)
    /\ privKey = TRUE
    /\ orphan = {}
    /\ hostFile = "epA"
    /\ tunnel = TRUE
    /\ desired = "epB"
    /\ epKeys = [e \in Endpoints |->
                    IF e = "epA" THEN {LocalKey(1)} ELSE {NamesakeKey}]
    /\ epPublicKey = [e \in Endpoints |-> NoKey]
    /\ lastProto = "connect_ok"

InitSwitch ==
    /\ pc = [p \in Procs |-> IF p = Sw THEN "loop" ELSE "off"]
    /\ gate = GateOff
    /\ InitLocals
    /\ InitHistory
    /\ (InitFresh \/ InitRetagged)

NextSwitch ==
    \/ (ticks[Sw] < MaxTicks /\ SwTick)
    \/ SwTag
    \/ SwRemove
    \/ ProtocolStep(Sw)
    \/ WaitStep(Sw)
    \/ Sleep(Sw)

SpecSwitch == InitSwitch /\ [][NextSwitch]_vars /\ WF_vars(NextSwitch)

\* The startup gate alone, as the lifecycle script runs it; the process
\* runs on until the function returns or raises.
InitGate ==
    /\ pc = [p \in Procs |-> "off"]
    /\ gate = [pc |-> "run", elapsed |-> 0, last |-> "none"]
    /\ InitLocals
    /\ InitHistory
    /\ (InitFresh \/ InitBootstrapped)

NextGate ==
    \/ \E r \in ProbeResults : \E d \in ProbeTimes : GateProbe(r, d)
    \/ GateTimeout

SpecGate == InitGate /\ [][NextGate]_vars /\ WF_vars(NextGate)

\* ================================================================ claims
\* ---------------------------------------------------------------- C1
\* C1: (Spec) at most one connect_dev_endpoint / disconnect_dev_endpoint is
\* in flight at any time: never is one daemon inside connect or disconnect
\* while the other daemon is inside connect or disconnect too.
C1_AtMostOneInFlight ==
    ~(op[Rc] \in {"connect", "disconnect"} /\ op[Sw] \in {"connect", "disconnect"})

\* ---------------------------------------------------------------- C2
\* C2: (Spec) once switch_daemon has removed the binding of X, and until X
\* is the desired endpoint again, reconnect_daemon enters neither
\* disconnect_dev_endpoint(X) nor connect_dev_endpoint(X) and does not save
\* X as the current endpoint.
C2_NoRepairOfTornDown ==
    [][(tornDown # None /\ tornDown' = tornDown /\ desired # tornDown)
        => ~(\/ /\ Len(calls'[Rc]) > Len(calls[Rc])
                /\ calls'[Rc][Len(calls'[Rc])][1] \in {"connect", "disconnect"}
                /\ calls'[Rc][Len(calls'[Rc])][2] = tornDown
             \/ /\ pc[Rc] = "c_save_write"
                /\ pc'[Rc] # "c_save_write"
                /\ binding' = tornDown)]_vars

\* ---------------------------------------------------------------- C3
\* C3 as stated: (SpecSeq) whenever the binding is X and no connect or
\* disconnect is in progress, after a tick that returned or raised alike,
\* the PublicKeys of X contain the local public key.
C3_BoundHasKeyWhenIdle ==
    (/\ Truthy(binding)
     /\ \A p \in Procs : op[p] = "none" /\ pc[p] \in {"loop", "done", "stopped"})
        => (localKey # NoKey /\ localKey \in epKeys[binding])

\* C3 amended: (SpecSeq) whenever the binding is X, no connect or disconnect
\* is in progress and the last protocol call was a connect_dev_endpoint that
\* returned, the PublicKeys of X contain the local public key.
C3_BoundHasKeyAfterConnect ==
    (/\ Truthy(binding)
     /\ \A p \in Procs : op[p] = "none" /\ pc[p] \in {"loop", "done", "stopped"}
     /\ lastProto = "connect_ok")
        => (localKey # NoKey /\ localKey \in epKeys[binding])

\* C3 witness: a tick has just returned from a connect_dev_endpoint it
\* made, both daemons are idle and the binding is set.
C3_Witness ==
    /\ Truthy(binding)
    /\ lastProto = "connect_ok"
    /\ \A p \in Procs : op[p] = "none" /\ pc[p] \in {"loop", "done", "stopped"}
    /\ \E p \in Procs :
        /\ pc[p] = "done"
        /\ outcome[p] = "ok"
        /\ calls[p] # <<>>
        /\ calls[p][Len(calls[p])][1] = "connect"
        /\ calls[p][Len(calls[p])][2] = binding

\* ---------------------------------------------------------------- C4
\* C4 as stated: (SpecSeq) when disconnect_dev_endpoint(X) has just returned
\* and the protocol call before it was a connect_dev_endpoint that returned
\* (which bound X), the binding is unset and X holds no key of this notebook.
C4_DisconnectUnbindsAndRevokes ==
    \A p \in Procs :
        \A i \in 1..Len(calls[p]) :
            (/\ calls[p][i][1] = "disconnect"
             /\ calls[p][i][3] = "connect_ok"
             /\ \/ i = Len(calls[p]) /\ pc[p] = "done" /\ outcome[p] = "ok"
                \/ i + 1 = Len(calls[p]) /\ pc[p] = "rv_fetch")
                => /\ binding = None
                   /\ \A k \in epKeys[calls[p][i][2]]
                                \cup {epPublicKey[calls[p][i][2]]} :
                         k # NoKey => ~IsSubstring(notebook_name, k)

\* C4 amended: (SpecSeq) when disconnect_dev_endpoint(X) has just returned
\* after a connect_dev_endpoint that bound X, the binding is what the caller
\* left: still X in reconnect_daemon, unset in switch_daemon, which removed
\* it before the call; and X holds no key of this notebook if the key
\* deletion of the disconnect met no exception.
C4_DisconnectKeepsBindingAndRevokes ==
    \A p \in Procs :
        \A i \in 1..Len(calls[p]) :
            (/\ calls[p][i][1] = "disconnect"
             /\ calls[p][i][3] = "connect_ok"
             /\ \/ i = Len(calls[p]) /\ pc[p] = "done" /\ outcome[p] = "ok"
                \/ i + 1 = Len(calls[p]) /\ pc[p] = "rv_fetch")
                => /\ binding = (IF p = Rc THEN calls[p][i][2] ELSE None)
                   /\ revoke[p] = "done"
                        => \A k \in epKeys[calls[p][i][2]]
                                    \cup {epPublicKey[calls[p][i][2]]} :
                             k # NoKey => ~IsSubstring(notebook_name, k)

\* C4 witness: reconnect_daemon is past a disconnect_dev_endpoint(epA) that
\* followed a returned connect and deleted the keys without an exception.
C4_Witness ==
    /\ pc[Rc] = "rv_fetch"
    /\ Len(calls[Rc]) >= 2
    /\ calls[Rc][Len(calls[Rc]) - 1] = <<"disconnect", "epA", "connect_ok">>
    /\ revoke[Rc] = "done"
    /\ binding = "epA"
    /\ \A k \in epKeys["epA"] \cup {epPublicKey["epA"]} :
          k # NoKey => ~IsSubstring(notebook_name, k)

\* ---------------------------------------------------------------- C5
\* C5 as stated: (SpecSeq) a switch tick that read no binding (no file, or
\* an empty one) and an endpoint name as the tag ends with that endpoint
\* bound and holding the local public key, having made connect_dev_endpoint
\* of it and no other call.
C5_SwitchFromUnboundBinds ==
    (pc[Sw] = "done" /\ ~Truthy(cur[Sw]) /\ latest[Sw] \in Endpoints)
        => /\ binding = latest[Sw]
           /\ localKey # NoKey
           /\ localKey \in epKeys[latest[Sw]]
           /\ Len(calls[Sw]) = 1
           /\ calls[Sw][1][1] = "connect"
           /\ calls[Sw][1][2] = latest[Sw]

\* C5 amended: (SpecSeq) such a tick makes connect_dev_endpoint of the
\* endpoint and no other call; if the call returns, the endpoint is bound
\* and holds the local public key; if it raises, the tick is a failed one
\* and the binding stays unset: there is no binding file, or an empty one
\* (as the tick found it, or left by save_current_dev_endpoint when its
\* write failed), and no file unless the call got as far as
\* save_current_dev_endpoint or the tick found one.
C5_SwitchFromUnboundBindsIfReturns ==
    (pc[Sw] = "done" /\ ~Truthy(cur[Sw]) /\ latest[Sw] \in Endpoints)
        => /\ Len(calls[Sw]) = 1
           /\ calls[Sw][1][1] = "connect"
           /\ calls[Sw][1][2] = latest[Sw]
           /\ outcome[Sw] \in {"ok", "raised"}
           /\ outcome[Sw] = "ok" =>
                /\ binding = latest[Sw]
                /\ localKey # NoKey
                /\ localKey \in epKeys[latest[Sw]]
                /\ failed_count[Sw] = 0
           /\ outcome[Sw] = "raised" =>
                /\ ~Truthy(binding)
                /\ binding = EmptyFile
                      => (cur[Sw] = EmptyFile \/ "binding" \in muts[Sw])
                /\ failed_count[Sw] > 0

\* C5 witness: a switch tick that read no binding and the tag epB has
\* returned, with epB bound.
C5_Witness ==
    /\ pc[Sw] = "done"
    /\ cur[Sw] = None
    /\ latest[Sw] = "epB"
    /\ outcome[Sw] = "ok"
    /\ binding = "epB"
    /\ localKey \in epKeys["epB"]

\* ---------------------------------------------------------------- C6
\* C6: (SpecSeq) a switch tick that read the same endpoint as binding and
\* as tag performs no mutating action (no update_dev_endpoint, no add_tags,
\* no tunnel stop or start, no key generation, no write or removal of the
\* binding), makes no protocol call, and is a successful tick.
C6_SwitchNoChangeIsNoop ==
    (pc[Sw] = "done" /\ cur[Sw] # None /\ Len(obs[Sw]) = 1
        /\ obs[Sw][1] = cur[Sw])
        => /\ muts[Sw] = {}
           /\ calls[Sw] = <<>>
           /\ binding = cur[Sw]
           /\ outcome[Sw] = "ok"
           /\ failed_count[Sw] = 0

\* C6 witness: a switch tick has ended that read epA as binding and as tag.
C6_Witness ==
    /\ pc[Sw] = "done"
    /\ cur[Sw] = "epA"
    /\ obs[Sw] = <<"epA">>
    /\ latest[Sw] = "epA"

\* ---------------------------------------------------------------- C7
\* C7: (SpecSeq) a reconnect tick that read a binding and whose Livy request
\* was answered performs no mutating action and no tunnel stop or start,
\* makes no protocol call, leaves the binding (and, making no key
\* generation, the keypair) as it read them, and is a successful tick.
C7_ReconnectLiveIsNoop ==
    (pc[Rc] = "done" /\ cur[Rc] # None /\ Len(obs[Rc]) >= 1
        /\ obs[Rc][1] = "live")
        => /\ muts[Rc] = {}
           /\ calls[Rc] = <<>>
           /\ binding = cur[Rc]
           /\ outcome[Rc] = "ok"
           /\ failed_count[Rc] = 0

\* C7 witness: a reconnect tick has ended that read the binding epA and
\* found Livy answering.
C7_Witness ==
    /\ pc[Rc] = "done"
    /\ cur[Rc] = "epA"
    /\ obs[Rc] = <<"live">>

\* ---------------------------------------------------------------- C8
\* C8 as stated: (SpecSeq) a reconnect tick that read the binding X, found
\* the Livy request refused, X not updating and the local public key absent
\* from X enters disconnect_dev_endpoint(X) first and
\* connect_dev_endpoint(X) next, with no restart of the tunnel before them
\* and no other call; the binding is X throughout (but while
\* save_current_dev_endpoint has the file open, emptied) and at the end of
\* the tick, so also at the end of a second such tick that follows a first.
C8_FullRepairCycle ==
    (/\ cur[Rc] # None
     /\ Len(obs[Rc]) >= 3
     /\ obs[Rc][1] = "refused"
     /\ ~is_dev_endpoint_updating(obs[Rc][2])
     /\ obs[Rc][3] = "absent")
        => /\ binding = (IF pc[Rc] = "c_save_write" THEN EmptyFile
                         ELSE cur[Rc])
           /\ Len(calls[Rc]) \in {1, 2}
           /\ calls[Rc][1][1] = "disconnect"
           /\ calls[Rc][1][2] = cur[Rc]
           /\ Len(calls[Rc]) = 2 =>
                (calls[Rc][2][1] = "connect" /\ calls[Rc][2][2] = cur[Rc])
           /\ pc[Rc] = "done" => Len(calls[Rc]) = 2

\* C8 amended: (SpecSeq) such a tick enters disconnect_dev_endpoint(X)
\* first and connect_dev_endpoint(X) next, with no restart of the tunnel
\* before them and no other call; the binding is X throughout and at the
\* end of the tick, so also at the end of a second such tick that follows a
\* first, but for save_current_dev_endpoint: the binding file is empty
\* while it has the file open, and stays empty when its write fails, after
\* a tick that raised there.
C8_FullRepairCycleUnlessSaveFails ==
    (/\ cur[Rc] # None
     /\ Len(obs[Rc]) >= 3
     /\ obs[Rc][1] = "refused"
     /\ ~is_dev_endpoint_updating(obs[Rc][2])
     /\ obs[Rc][3] = "absent")
        => /\ binding = (IF \/ pc[Rc] = "c_save_write"
                            \/ /\ pc[Rc] = "done"
                               /\ outcome[Rc] = "raised"
                               /\ "binding" \in muts[Rc]
                           THEN EmptyFile
                         ELSE cur[Rc])
           /\ Len(calls[Rc]) \in {1, 2}
           /\ calls[Rc][1][1] = "disconnect"
           /\ calls[Rc][1][2] = cur[Rc]
           /\ Len(calls[Rc]) = 2 =>
                (calls[Rc][2][1] = "connect" /\ calls[Rc][2][2] = cur[Rc])
           /\ pc[Rc] = "done" => Len(calls[Rc]) = 2

\* C8 witness: such a tick has ended with its connect returned, and the
\* reconnect tick before it was such a tick too.
C8_Witness ==
    /\ pc[Rc] = "done"
    /\ prevFull
    /\ cur[Rc] = "epA"
    /\ Len(obs[Rc]) >= 3
    /\ obs[Rc][1] = "refused"
    /\ ~is_dev_endpoint_updating(obs[Rc][2])
    /\ obs[Rc][3] = "absent"
    /\ outcome[Rc] = "ok"
    /\ binding = "epA"

\* ---------------------------------------------------------------- C9
\* C9: (SpecLoop) a daemon whose ticks all raise, started with failed_count
\* 0, runs exactly 5760 ticks (switch_daemon) or 576 ticks
\* (reconnect_daemon) and then stops: it has stopped only after that many
\* ticks, it starts no tick beyond them, and after that many it no longer
\* passes its while condition.
C9_ExactFailingTicks ==
    /\ ticks[Sw] <= 5760
    /\ ticks[Rc] <= 576
    /\ pc[Sw] = "stopped" => ticks[Sw] = 5760
    /\ pc[Rc] = "stopped" => ticks[Rc] = 576
    /\ (pc[Sw] = "loop" /\ ticks[Sw] = 5760) => ~LoopGuard(Sw)
    /\ (pc[Rc] = "loop" /\ ticks[Rc] = 576) => ~LoopGuard(Rc)
    /\ (pc[Sw] = "loop" /\ ticks[Sw] < 5760) => LoopGuard(Sw)
    /\ (pc[Rc] = "loop" /\ ticks[Rc] < 576) => LoopGuard(Rc)

\* C9 witness: switch_daemon has stopped after 5760 failing ticks.
C9_Witness ==
    /\ pc[Sw] = "stopped"
    /\ ticks[Sw] = 5760
    /\ failed_count[Sw] = 5760

\* --------------------------------------------------------------- C10
\* C10 as stated: (SpecLoop) a daemon leaves its loop only with failed_count
\* strictly greater than its threshold; at its while condition with
\* failed_count at most the threshold it starts another tick; once stopped
\* it starts no tick.
C10_ExitsAboveThreshold ==
    [][\A p \in Procs :
        /\ (pc[p] # "stopped" /\ pc'[p] = "stopped")
            => failed_count[p] > MaxFailCount(p)
        /\ (pc[p] = "loop" /\ pc'[p] # "loop"
                /\ failed_count[p] <= MaxFailCount(p))
            => ticks'[p] = ticks[p] + 1
        /\ pc[p] = "stopped"
            => (pc'[p] = "stopped" /\ ticks'[p] = ticks[p])]_vars

\* C10 amended: (SpecLoop) a daemon leaves its loop only with failed_count
\* equal to or greater than its threshold; at its while condition with
\* failed_count strictly less than the threshold it starts another tick,
\* and otherwise it stops; once stopped it starts no tick.
C10_ExitsAtThreshold ==
    [][\A p \in Procs :
        /\ (pc[p] # "stopped" /\ pc'[p] = "stopped")
            => failed_count[p] >= MaxFailCount(p)
        /\ (pc[p] = "loop" /\ pc'[p] # "loop")
            => IF failed_count[p] < MaxFailCount(p)
                 THEN ticks'[p] = ticks[p] + 1 /\ pc'[p] # "stopped"
                 ELSE ticks'[p] = ticks[p] /\ pc'[p] = "stopped"
        /\ ticks'[p] # ticks[p] => failed_count[p] < MaxFailCount(p)
        /\ pc[p] = "stopped"
            => (pc'[p] = "stopped" /\ ticks'[p] = ticks[p])]_vars

\* C10 witness: reconnect_daemon has stopped with failed_count equal to
\* its threshold.
C10_Witness ==
    /\ pc[Rc] = "stopped"
    /\ failed_count[Rc] = RECONNECT_MAX_FAIL_COUNT

\* --------------------------------------------------------------- C11
\* C11: (SpecSeq) in both daemons a tick that returns leaves failed_count
\* at 0 whatever it was, a tick that made no call included; so failed_count
\* is the number of ticks that raised since the last tick that returned:
\* that number as the tick runs, 0 once it has returned, one more once it
\* has raised.
C11_CounterIsFailingStreak ==
    \A p \in Procs :
        /\ pc[p] # "done" => failed_count[p] = streak[p]
        /\ (pc[p] = "done" /\ outcome[p] = "ok") => failed_count[p] = 0
        /\ (pc[p] = "done" /\ outcome[p] = "raised")
            => failed_count[p] = streak[p] + 1
        /\ pc[p] = "done" => outcome[p] \in {"ok", "raised"}

\* C11 witness: a reconnect tick that made no call and changed nothing has
\* returned after a tick that raised, and failed_count is 0 again.
C11_Witness ==
    /\ pc[Rc] = "done"
    /\ outcome[Rc] = "ok"
    /\ streak[Rc] > 0
    /\ calls[Rc] = <<>>
    /\ muts[Rc] = {}
    /\ failed_count[Rc] = 0

\* --------------------------------------------------------------- C12
\* C12: (SpecPoll) in wait_dev_endpoint_ready, a poll answered FAILED, the
\* first or a later one, raises (out of connect_dev_endpoint, or into the
\* except clause of delete_public_keys_if_has); a poll answered COMPLETED
\* or without LastUpdateStatus makes the call return at that poll; a poll
\* answered with any other status, the time not being up, is followed by
\* another poll.
C12_WaitByStatus ==
    \A p \in Procs :
        polled[p] # <<>> =>
            LET a == polled[p][1]
                n == polled[p][2]
                raised ==
                    \/ pc[p] = "done" /\ outcome[p] = "raised" /\ op[p] = "none"
                    \/ pc[p] \in {"d_stop", "c_keygen"} /\ revoke[p] = "swallowed"
                returned ==
                    \/ pc[p] \in {"rv_update", "c_add", "c_addr"}
                    \/ pc[p] \in {"d_stop", "c_keygen"} /\ revoke[p] = "done"
            IN  /\ n \in 1..MaxPolls
                /\ a = FAILED => raised
                /\ a \in {COMPLETED, NoStatus} => (returned /\ polls[p] = 0)
                /\ (a \notin {COMPLETED, NoStatus, FAILED, "raised"}
                        /\ n < MaxPolls)
                    => (pc[p] \in WaitPcs /\ polls[p] = n)

\* C12 witness: a poll after the first was answered FAILED and
\* connect_dev_endpoint has raised.
C12_Witness ==
    \E p \in Procs :
        /\ polled[p] # <<>>
        /\ polled[p][1] = FAILED
        /\ polled[p][2] > 1
        /\ pc[p] = "done"
        /\ outcome[p] = "raised"

\* --------------------------------------------------------------- C13
\* C13: (SpecSeq) in a switch tick that read a binding which differs from
\* the tag, disconnect_dev_endpoint of that binding is entered with the
\* binding already removed, the binding stays removed while the disconnect
\* runs, and connect_dev_endpoint of the tag is entered only from the last
\* step of that disconnect, after it.
C13_ClearThenDisconnectThenConnect ==
    [][/\ (pc[Sw] = "sw_remove" /\ pc'[Sw] # "sw_remove")
            => (op'[Sw] = "disconnect" /\ Truthy(cur[Sw])
                    /\ latest[Sw] # cur[Sw])
       /\ (op[Sw] # "disconnect" /\ op'[Sw] = "disconnect")
            => /\ Truthy(cur[Sw])
               /\ target'[Sw] = cur[Sw]
               /\ binding' = None
               /\ calls[Sw] = <<>>
       /\ op'[Sw] = "disconnect" => binding' = None
       /\ (op[Sw] # "connect" /\ op'[Sw] = "connect" /\ Truthy(cur[Sw]))
            => /\ op[Sw] = "disconnect"
               /\ pc[Sw] = "d_tag"
               /\ ~tunnel
               /\ Len(calls[Sw]) = 1
               /\ calls[Sw][1][1] = "disconnect"
               /\ calls[Sw][1][2] = cur[Sw]
               /\ target'[Sw] = latest[Sw]
               /\ {"tunnel", "tag"} \subseteq muts'[Sw]
               /\ binding' = None]_vars

\* C13 witness: a switch tick that read the binding epA and the tag epB
\* is inside connect_dev_endpoint(epB), after its disconnect of epA.
C13_Witness ==
    /\ op[Sw] = "connect"
    /\ cur[Sw] = "epA"
    /\ latest[Sw] = "epB"
    /\ Len(calls[Sw]) = 2
    /\ calls[Sw][1][1] = "disconnect"
    /\ calls[Sw][1][2] = "epA"
    /\ calls[Sw][2][2] = "epB"
    /\ "binding" \in muts[Sw]
    /\ binding = None

\* --------------------------------------------------------------- C14
\* C14: (SpecGate) wait_for_livy_connection returns at the first request
\* that gets a response, makes another request after each refused one
\* while the time is not up, raises its fatal error once LIVY_SERVER_TIMEOUT
\* (1800 s) has passed without a response, stays ended once ended, and
\* always ends.
C14_GateEnds ==
    /\ [](gate.pc = "ok" => gate.last = "live")
    /\ [](gate.pc = "fatal" => (gate.last # "live" /\ gate.elapsed >= 1800))
    /\ [][(gate.pc = "run" /\ gate' # gate)
            => IF gate.elapsed < 1800
                 THEN /\ gate'.last \in ProbeResults
                      /\ gate'.last = "live" => gate'.pc = "ok"
                      /\ gate'.last = "refused"
                            => (gate'.pc = "run"
                                    /\ gate'.elapsed > gate.elapsed)
                      /\ gate'.pc # "fatal"
                 ELSE gate'.pc = "fatal"]_vars
    /\ [][gate.pc \in {"ok", "fatal", "error"} => gate' = gate]_vars
    /\ <>(gate.pc # "run")

\* C14 witness: every request was refused and the gate has raised its
\* fatal error after 1800 s.
C14_Witness ==
    /\ gate.pc = "fatal"
    /\ gate.last = "refused"
    /\ gate.elapsed >= 1800

\* --------------------------------------------------------------- C15
\* C15: (SpecSeq) in connect_dev_endpoint, whatever ping_livy finds after
\* the tunnel was started, the call does not raise there but goes on to
\* save_current_dev_endpoint (and from it to update_connection_tag).
C15_FailedPingIsNonFatal ==
    [][\A p \in Procs :
        (pc[p] = "c_ping" /\ pc'[p] # "c_ping")
            => (pc'[p] = "c_save" /\ outcome'[p] # "raised")]_vars

\* --------------------------------------------------------------- C16
\* C16: (SpecPoll) a wait_dev_endpoint_ready whose polls were all answered
\* IN_PROGRESS until the time was up returns without raising, and its
\* caller goes on as after a ready endpoint: delete_public_keys and
\* add_public_key make their update_dev_endpoint call next, with no other
\* GetDevEndpoint in between.
C16_TimeoutProceeds ==
    /\ [](\A p \in Procs :
            polled[p] = <<IN_PROGRESS, MaxPolls>>
                => /\ polls[p] = 0
                   /\ \/ pc[p] \in {"rv_update", "c_add", "c_addr"}
                      \/ pc[p] \in {"d_stop", "c_keygen"} /\ revoke[p] = "done")
    /\ [][\A p \in Procs :
            (pc[p] \in WaitPcs /\ polled'[p] = <<IN_PROGRESS, MaxPolls>>)
                => /\ outcome'[p] = outcome[p]
                   /\ failed_count'[p] = failed_count[p]
                   /\ (pc[p] = "rv_wait1" /\ toDelete[p] # {})
                        => pc'[p] = "rv_update"
                   /\ pc[p] = "c_wait3" => pc'[p] = "c_add"]_vars
    /\ [][\A p \in Procs :
            (/\ polled[p] = <<IN_PROGRESS, MaxPolls>>
             /\ pc[p] \in {"rv_update", "c_add"}
             /\ pc'[p] # pc[p])
                => /\ "update" \in muts'[p]
                   /\ polled'[p] = <<>>]_vars

\* C16 witness: the wait before AddPublicKeys ran out of time on
\* IN_PROGRESS and add_public_key is about to call update_dev_endpoint.
C16_Witness ==
    \E p \in Procs :
        /\ polled[p] = <<IN_PROGRESS, MaxPolls>>
        /\ pc[p] = "c_add"
        /\ op[p] = "connect"

\* --------------------------------------------------------------- C17
\* C17: (SpecSeq) a reconnect tick that read a binding, found the Livy
\* request refused and the endpoint's LastUpdateStatus IN_PROGRESS ends
\* there: no mutating action, no tunnel stop or start, no key generation,
\* no protocol call, the binding as read, and the tick a successful one.
\* With LastUpdateStatus FAILED or COMPLETED the tick does not end there:
\* it raises, restarts the tunnel or enters disconnect_dev_endpoint.
C17_UpdatingSkipsTick ==
    (cur[Rc] # None /\ Len(obs[Rc]) >= 2 /\ obs[Rc][1] = "refused")
        => /\ obs[Rc][2] = IN_PROGRESS
                => /\ pc[Rc] = "done"
                   /\ Len(obs[Rc]) = 3
                   /\ muts[Rc] = {}
                   /\ calls[Rc] = <<>>
                   /\ binding = cur[Rc]
                   /\ outcome[Rc] = "ok"
                   /\ failed_count[Rc] = 0
           /\ obs[Rc][2] \in {FAILED, COMPLETED}
                => \/ pc[Rc] = "rc_restart"
                   \/ pc[Rc] = "done" /\ outcome[Rc] = "raised"
                   \/ calls[Rc] # <<>>

\* C17 witness: a reconnect tick has ended that read the binding epA, had
\* its Livy request refused and found epA IN_PROGRESS.
C17_Witness ==
    /\ pc[Rc] = "done"
    /\ cur[Rc] = "epA"
    /\ Len(obs[Rc]) = 3
    /\ obs[Rc][1] = "refused"
    /\ obs[Rc][2] = IN_PROGRESS
    /\ outcome[Rc] = "ok"

\* --------------------------------------------------------------- C18
\* C18: (SpecSeq) a reconnect tick that read the binding X, found the Livy
\* request refused, X not updating and the local public key registered on
\* X restarts the tunnel (stop_autossh, start_autossh) before any other
\* call and probes again.  If the second request is answered the tick ends
\* there, successful, having changed nothing but the tunnel: no key added
\* or removed, no key generation, the binding as read.  If it is refused
\* the tick enters disconnect_dev_endpoint(X) and after it
\* connect_dev_endpoint(X).
C18_RestartThenRepair ==
    (/\ cur[Rc] # None
     /\ Len(obs[Rc]) >= 3
     /\ obs[Rc][1] = "refused"
     /\ ~is_dev_endpoint_updating(obs[Rc][2])
     /\ obs[Rc][3] = "present")
        => /\ pc[Rc] = "rc_restart" <=> calls[Rc] = <<>>
           /\ pc[Rc] = "rc_restart" => (muts[Rc] = {} /\ Len(obs[Rc]) = 3)
           /\ calls[Rc] # <<>>
                => /\ calls[Rc][1][1] = "restart"
                   /\ calls[Rc][1][2] = cur[Rc]
                   /\ "tunnel" \in muts[Rc]
           /\ pc[Rc] = "rc_start"
                => (Len(calls[Rc]) = 1 /\ muts[Rc] = {"tunnel"}
                        /\ Len(obs[Rc]) = 3 /\ ~tunnel)
           /\ pc[Rc] = "rc_reprobe"
                => (Len(calls[Rc]) = 1 /\ muts[Rc] = {"tunnel"}
                        /\ Len(obs[Rc]) = 3 /\ tunnel)
           /\ (Len(obs[Rc]) >= 4 /\ obs[Rc][4] = "live")
                => /\ pc[Rc] = "done"
                   /\ outcome[Rc] = "ok"
                   /\ failed_count[Rc] = 0
                   /\ Len(calls[Rc]) = 1
                   /\ muts[Rc] = {"tunnel"}
                   /\ binding = cur[Rc]
                   /\ tunnel
           /\ (Len(obs[Rc]) >= 4 /\ obs[Rc][4] = "refused")
                => /\ Len(calls[Rc]) \in {2, 3}
                   /\ calls[Rc][2][1] = "disconnect"
                   /\ calls[Rc][2][2] = cur[Rc]
                   /\ Len(calls[Rc]) = 3
                        => (calls[Rc][3][1] = "connect"
                                /\ calls[Rc][3][2] = cur[Rc])
                   /\ pc[Rc] = "done" => Len(calls[Rc]) = 3

\* C18 witness: such a tick has ended after a refused second request, its
\* disconnect and its connect of epA.
C18_Witness ==
    /\ pc[Rc] = "done"
    /\ cur[Rc] = "epA"
    /\ Len(obs[Rc]) >= 4
    /\ obs[Rc][1] = "refused"
    /\ obs[Rc][3] = "present"
    /\ obs[Rc][4] = "refused"
    /\ Len(calls[Rc]) = 3
    /\ outcome[Rc] = "ok"
    /\ binding = "epA"

\* --------------------------------------------------------------- C19
\* C19 as stated: (SpecLate) in both daemons every error raised inside a
\* tick, one raised inside delete_public_keys_if_has included, ends the
\* tick in the daemon's except clause with failed_count one greater; the
\* daemon then sleeps and, failed_count being below its threshold, starts
\* its next tick.
C19_EveryErrorIsCounted ==
    [][\A p \in Procs :
        /\ (\/ outcome'[p] = "raised" /\ outcome[p] # "raised"
            \/ revoke'[p] = "swallowed" /\ revoke[p] # "swallowed")
              => /\ pc'[p] = "done"
                 /\ outcome'[p] = "raised"
                 /\ failed_count'[p] = failed_count[p] + 1
        /\ (pc[p] = "done" /\ pc'[p] # "done")
              => (pc'[p] = "loop" /\ failed_count'[p] = failed_count[p])
        /\ (pc[p] = "loop" /\ pc'[p] # "loop"
                /\ failed_count[p] < MaxFailCount(p))
              => (ticks'[p] = ticks[p] + 1 /\ pc'[p] # "stopped")]_vars

\* C19 amended: (SpecLate) in both daemons every exception that leaves the
\* tick (every error but those delete_public_keys_if_has catches itself,
\* after which the tick goes on) ends the tick in the daemon's except
\* clause with failed_count one greater, and nothing else changes
\* failed_count but a tick that returns; the daemon then sleeps and,
\* failed_count being below its threshold, starts its next tick.
C19_EveryRaiseIsCounted ==
    [][\A p \in Procs :
        /\ (outcome'[p] = "raised" /\ outcome[p] # "raised")
              => /\ pc'[p] = "done"
                 /\ pc[p] \notin {"done", "loop", "stopped"}
                 /\ failed_count'[p] = failed_count[p] + 1
        /\ (revoke'[p] = "swallowed" /\ revoke[p] # "swallowed")
              => /\ pc'[p] = AfterRevokePc(p)
                 /\ outcome'[p] = outcome[p]
                 /\ failed_count'[p] = failed_count[p]
        /\ failed_count'[p] # failed_count[p]
              => \/ outcome'[p] = "raised" /\ outcome[p] # "raised"
                 \/ outcome'[p] = "ok" /\ failed_count'[p] = 0
        /\ (pc[p] = "done" /\ pc'[p] # "done")
              => (pc'[p] = "loop" /\ failed_count'[p] = failed_count[p])
        /\ (pc[p] = "loop" /\ pc'[p] # "loop"
                /\ failed_count[p] < MaxFailCount(p))
              => (ticks'[p] = ticks[p] + 1 /\ pc'[p] # "stopped")]_vars

\* C19 witness: switch_daemon has started its next tick after a tick that
\* raised, with failed_count 1.
C19_Witness ==
    /\ pc[Sw] = "sw_tag"
    /\ ticks[Sw] >= 2
    /\ streak[Sw] = 1
    /\ failed_count[Sw] = 1

\* --------------------------------------------------------------- C20
\* C20: (SpecSwitch) with the tag fixed at an endpoint name D and
\* switch_daemon alone: if a connect_dev_endpoint(D) of the daemon
\* eventually returns, the binding is eventually D and stays D.  A tick
\* that raised after remove_dev_endpoint, in disconnect_dev_endpoint or in
\* connect_dev_endpoint, leaves the binding unset (no file, or an empty
\* one, which reads as no binding), there being none while either call
\* runs, up to the write of save_current_dev_endpoint, and no file at all
\* while disconnect_dev_endpoint runs; a tick that raised is followed by
\* another tick; and a tick that reads no binding and the tag D enters
\* connect_dev_endpoint(D), with no disconnect before it.
C20_SwitchConverges ==
    /\ (<>(/\ pc[Sw] = "done"
           /\ outcome[Sw] = "ok"
           /\ calls[Sw] # <<>>
           /\ calls[Sw][Len(calls[Sw])][1] = "connect"
           /\ calls[Sw][Len(calls[Sw])][2] = desired))
          => <>[](binding = desired)
    /\ [](/\ (pc[Sw] = "done" /\ outcome[Sw] = "raised" /\ calls[Sw] # <<>>)
                => ~Truthy(binding)
          /\ (op[Sw] # "none" /\ pc[Sw] \notin {"c_save_write", "c_tag"})
                => ~Truthy(binding)
          /\ op[Sw] = "disconnect" => binding = None
          /\ pc[Sw] = "c_save_write" => binding = EmptyFile
          /\ pc[Sw] = "c_tag" => binding = target[Sw])
    /\ ((pc[Sw] = "done" /\ outcome[Sw] = "raised" /\ ticks[Sw] < MaxTicks)
            ~> (pc[Sw] = "sw_tag"))
    /\ [][(/\ pc[Sw] = "sw_tag"
           /\ pc'[Sw] # "sw_tag"
           /\ ~Truthy(cur[Sw])
           /\ outcome'[Sw] # "raised")
            => /\ op'[Sw] = "connect"
               /\ target'[Sw] = desired
               /\ calls'[Sw] = << <<"connect", desired, lastProto>> >>]_vars

\* C20 witness: a tick removed the binding of epA and raised; a later tick
\* read no binding, made connect_dev_endpoint(epB) alone and returned with
\* epB bound.
C20_Witness ==
    /\ pc[Sw] = "done"
    /\ outcome[Sw] = "ok"
    /\ tornDown = "epA"
    /\ streak[Sw] >= 1
    /\ cur[Sw] = None
    /\ Len(calls[Sw]) = 1
    /\ calls[Sw][1][1] = "connect"
    /\ desired = "epB"
    /\ binding = "epB"

\* --------------------------------------------------------------- C21
\* C21: (SpecSeq) no step of delete_public_keys_if_has, in
\* connect_dev_endpoint or in disconnect_dev_endpoint, ends the tick or
\* changes failed_count: a failure in it (GetDevEndpoint raising, FAILED
\* seen by its wait_dev_endpoint_ready, update_dev_endpoint raising) is
\* caught there, and the caller goes on, connect_dev_endpoint with
\* generate_ssh_keypair and disconnect_dev_endpoint with stop_autossh.
C21_RevocationIsBestEffort ==
    [][\A p \in Procs :
        /\ pc[p] \in {"rv_fetch", "rv_wait1", "rv_update", "rv_wait2"}
              => /\ outcome'[p] = outcome[p]
                 /\ failed_count'[p] = failed_count[p]
                 /\ op'[p] = op[p]
                 /\ op[p] \in {"connect", "disconnect"}
                 /\ pc'[p] \in {"rv_fetch", "rv_wait1", "rv_update", "rv_wait2",
                                IF op[p] = "disconnect" THEN "d_stop"
                                ELSE "c_keygen"}
        /\ (revoke'[p] = "swallowed" /\ revoke[p] # "swallowed")
              => /\ pc[p] \in {"rv_fetch", "rv_wait1", "rv_update", "rv_wait2"}
                 /\ pc'[p] = IF op[p] = "disconnect" THEN "d_stop"
                             ELSE "c_keygen"
        /\ (pc[p] = "c_keygen" /\ pc'[p] # "c_keygen")
              => pc'[p] \in {"c_remove", "c_sshkeygen"}
        /\ (pc[p] = "c_sshkeygen" /\ pc'[p] # "c_sshkeygen")
              => pc'[p] = "c_privwrite"
        /\ (pc[p] = "c_privwrite" /\ pc'[p] # "c_privwrite")
              => ("keygen" \in muts'[p] /\ pc'[p] = "c_pubopen")
        /\ (pc[p] = "c_pubopen" /\ pc'[p] # "c_pubopen")
              => pc'[p] = "c_pubwrite"
        /\ (pc[p] = "c_pubwrite" /\ pc'[p] # "c_pubwrite")
              => (pc'[p] = "c_chmod" /\ localKey' # NoKey)
        /\ (pc[p] = "c_chmod" /\ pc'[p] # "c_chmod")
              => (pc'[p] = "c_readpk" /\ localKey \notin epKeys[target[p]])
        /\ (pc[p] = "c_readpk" /\ pc'[p] # "c_readpk")
              => (pc'[p] = "c_wait3" /\ pk'[p] = localKey)
        /\ (pc[p] = "d_stop" /\ pc'[p] # "d_stop" /\ ~AutosshHostRaises)
              => "tunnel" \in muts'[p]]_vars

\* C21 witness: update_dev_endpoint(DeletePublicKeys) or a call before it
\* failed in the revocation of a connect_dev_endpoint, and the call went on
\* to register a new key and returned: the tick is a successful one.
C21_Witness ==
    \E p \in Procs :
        /\ pc[p] = "done"
        /\ outcome[p] = "ok"
        /\ revoke[p] = "swallowed"
        /\ calls[p] # <<>>
        /\ calls[p][Len(calls[p])][1] = "connect"
        /\ binding = calls[p][Len(calls[p])][2]
        /\ localKey \in epKeys[binding]

\* --------------------------------------------------------------- C22
\* C22 as stated: (SpecPoll) in connect_dev_endpoint, a poll of any of its
\* wait_dev_endpoint_ready calls, those of delete_public_keys_if_has
\* included, that is answered FAILED makes the call raise at that poll: the
\* tick ends as a failed one, failed_count one greater, and the binding is
\* not written.
C22_FailedAtAnyWaitRaises ==
    [][\A p \in Procs :
        (/\ pc[p] \in WaitPcs
         /\ op[p] = "connect"
         /\ polled'[p] # <<>>
         /\ polled'[p][1] = FAILED)
            => /\ pc'[p] = "done"
               /\ outcome'[p] = "raised"
               /\ failed_count'[p] = failed_count[p] + 1
               /\ op'[p] = "none"
               /\ binding' = binding]_vars

\* C22 amended: (SpecPoll) in connect_dev_endpoint, a poll answered FAILED
\* in a wait_dev_endpoint_ready of add_public_key makes the call raise at
\* that poll: the tick ends as a failed one, failed_count one greater, and
\* the binding is not written.  A poll answered FAILED in a
\* wait_dev_endpoint_ready of delete_public_keys_if_has ends the
\* revocation only: connect_dev_endpoint goes on with generate_ssh_keypair
\* and the tick is not a failed one by it.
C22_FailedAtAddKeyWaitRaises ==
    [][\A p \in Procs :
        (/\ pc[p] \in WaitPcs
         /\ op[p] = "connect"
         /\ polled'[p] # <<>>
         /\ polled'[p][1] = FAILED)
            => IF pc[p] \in {"c_wait3", "c_wait4"}
                 THEN /\ pc'[p] = "done"
                      /\ outcome'[p] = "raised"
                      /\ failed_count'[p] = failed_count[p] + 1
                      /\ op'[p] = "none"
                      /\ binding' = binding
                 ELSE /\ pc'[p] = "c_keygen"
                      /\ revoke'[p] = "swallowed"
                      /\ outcome'[p] = outcome[p]
                      /\ failed_count'[p] = failed_count[p]
                      /\ op'[p] = "connect"
                      /\ binding' = binding]_vars

\* C22 witness: a connect_dev_endpoint of switch_daemon has raised on a
\* FAILED answer in add_public_key, and its endpoint is not bound.
C22_Witness ==
    /\ pc[Sw] = "done"
    /\ outcome[Sw] = "raised"
    /\ polled[Sw] # <<>>
    /\ polled[Sw][1] = FAILED
    /\ calls[Sw] # <<>>
    /\ calls[Sw][Len(calls[Sw])][1] = "connect"
    /\ "keygen" \in muts[Sw]
    /\ binding # calls[Sw][Len(calls[Sw])][2]

\* --------------------------------------------------------------- C23
\* C23: (SpecSeq) a key registered on an endpoint, in PublicKeys or as
\* PublicKey, whose text does not contain notebook_name is registered there
\* still after every step of connect_dev_endpoint and
\* disconnect_dev_endpoint.
C23_ForeignKeysAreKept ==
    [][\A e \in Endpoints :
        /\ \A k \in epKeys[e] :
              ~IsSubstring(notebook_name, k) => k \in epKeys'[e]
        /\ (epPublicKey[e] # NoKey
                /\ ~IsSubstring(notebook_name, epPublicKey[e]))
              => epPublicKey'[e] = epPublicKey[e]]_vars

\* --------------------------------------------------------------- C24
\* What the binding was when the connect_dev_endpoint of daemon p's tick
\* began (ticks not overlapping): what reconnect_daemon read, which its
\* disconnect_dev_endpoint leaves alone; for switch_daemon no file once it
\* has removed the one it read, and else what it read.
AtConnect(p) ==
    IF p = Rc THEN cur[Rc]
    ELSE IF Truthy(cur[Sw]) THEN None ELSE cur[Sw]

\* A tick of daemon p has ended with its connect_dev_endpoint raising.
ConnectRaised(p) ==
    /\ pc[p] = "done"
    /\ outcome[p] = "raised"
    /\ calls[p] # <<>>
    /\ calls[p][Len(calls[p])][1] = "connect"

\* C24 as stated: (SpecSeq) the binding is given a value by
\* save_current_dev_endpoint alone, the last file operation of a
\* connect_dev_endpoint whose key generation, AddPublicKeys, start_autossh
\* and ping_livy went through; every other step of a connect_dev_endpoint
\* leaves the binding as it is, and after a connect_dev_endpoint that
\* raised, at whatever step, the binding is what it was when the call
\* began.
C24_BindingSavedLast ==
    /\ [][/\ binding' \notin {binding, None}
                => \E p \in Procs :
                    /\ op[p] = "connect"
                    /\ {"keygen", "update", "tunnel"} \subseteq muts[p]
                    /\ localKey \in epKeys[target[p]]
                    /\ tunnel
                    /\ obs[p][Len(obs[p])] = "live"
                    /\ pc[p] \in {"c_save", "c_save_write"}
          /\ \A p \in Procs :
                (op[p] = "connect" /\ pc[p] \notin {"c_save", "c_save_write"})
                    => binding' = binding]_vars
    /\ [](\A p \in Procs : ConnectRaised(p) => binding = AtConnect(p))

\* C24 amended: (SpecSeq) the binding is given a value by
\* save_current_dev_endpoint alone (it opens the file, which empties it,
\* and writes the name), the last file operation of a connect_dev_endpoint
\* whose key generation, AddPublicKeys, start_autossh and ping_livy went
\* through.  Every other step of a connect_dev_endpoint leaves the binding
\* as it is, also when the keypair was replaced before, and so does the
\* step at which the call raises.  save_current_dev_endpoint itself raises
\* at its open, the file untouched, or at its write, the file emptied; the
\* call returns only with the name written.  After a connect_dev_endpoint
\* that raised the binding is therefore what it was when the call began,
\* or an empty file, and an empty file only if save_current_dev_endpoint
\* had opened it.
C24_BindingSavedLastOrEmptied ==
    /\ [][/\ binding' \notin {binding, None}
                => \E p \in Procs :
                    /\ op[p] = "connect"
                    /\ {"keygen", "update", "tunnel"} \subseteq muts[p]
                    /\ localKey \in epKeys[target[p]]
                    /\ tunnel
                    /\ obs[p][Len(obs[p])] = "live"
                    /\ \/ /\ pc[p] = "c_save"
                          /\ binding' = EmptyFile
                          /\ pc'[p] = "c_save_write"
                       \/ /\ pc[p] = "c_save_write"
                          /\ binding = EmptyFile
                          /\ binding' = target[p]
                          /\ pc'[p] = "c_tag"
          /\ \A p \in Procs :
                /\ (op[p] = "connect"
                        /\ pc[p] \notin {"c_save", "c_save_write"})
                      => binding' = binding
                /\ (op[p] = "connect" /\ outcome'[p] = "raised")
                      => binding' = binding
                /\ (pc[p] = "c_save" /\ pc'[p] # "c_save")
                      => \/ /\ pc'[p] = "c_save_write"
                            /\ binding' = EmptyFile
                            /\ "binding" \in muts'[p]
                         \/ /\ outcome'[p] = "raised"
                            /\ muts'[p] = muts[p]
                /\ (pc[p] = "c_save_write" /\ pc'[p] # "c_save_write")
                      => /\ binding = EmptyFile
                         /\ "binding" \in muts[p]
                         /\ \/ pc'[p] = "c_tag" /\ binding' = target[p]
                            \/ outcome'[p] = "raised"
                /\ (pc[p] = "c_tag" /\ pc'[p] # "c_tag")
                      => /\ binding' = binding
                         /\ binding = target[p]
                         /\ pc'[p] = "done"
                         /\ outcome'[p] = "ok"
                         /\ op'[p] = "none"]_vars
    /\ [](\A p \in Procs :
            ConnectRaised(p)
                => /\ binding \in {AtConnect(p), EmptyFile}
                   /\ binding # AtConnect(p) => "binding" \in muts[p])

\* C24 witness: the first connect_dev_endpoint of a notebook replaced the
\* keypair, registered the new key, started the tunnel and raised in the
\* write of save_current_dev_endpoint: the binding file is there, empty.
C24_Witness ==
    /\ pc[Sw] = "done"
    /\ outcome[Sw] = "raised"
    /\ cur[Sw] = None
    /\ Len(calls[Sw]) = 1
    /\ calls[Sw][1][1] = "connect"
    /\ {"keygen", "binding"} \subseteq muts[Sw]
    /\ localKey # NoKey
    /\ localKey \in epKeys[calls[Sw][1][2]]
    /\ tunnel
    /\ binding = EmptyFile

====
